---- MODULE Spec2Model ----
(***************************************************************************)
(* aws-usage-analyzer: the metric collection run of Handler.Handle.        *)
(*                                                                         *)
(* The main goroutine loads the configuration, discovers the resources,    *)
(* dispatches one fetchMetricsForResource goroutine per resource from      *)
(* GetMetricsForResources, and writes results.csv.  CloudWatch, the        *)
(* discovery calls and the file system are the environment: their answers  *)
(* are chosen nondeterministically from small sets.                        *)
(***************************************************************************)
EXTENDS Integers, Sequences, FiniteSets, TLC

\* internal/metrics/metrics.go:16
MaxConcurrency == 3

\* Bounds of the model.  Spec checks the whole run on accounts with more
\* resources than MaxConcurrency; SpecFetch checks the fetch of few resources
\* against a CloudWatch that paginates and fails more often; SpecDiscovery
\* checks discovery and the metric targets on accounts of one cluster, one
\* replication group or one table of varied shape.
MaxDdbResources == 3     \* Spec: summaries returned by DynamoDb.GetAll
MaxTokens == 1           \* Spec: continuation tokens CloudWatch hands out
MaxErrors == 1           \* Spec: GetMetricData calls that fail
FetchDdbResources == 1   \* SpecFetch: summaries returned by DynamoDb.GetAll
FetchTokens == 2         \* SpecFetch: continuation tokens CloudWatch hands out
FetchErrors == 1         \* SpecFetch: GetMetricData calls that fail
DiscNodes == 1           \* SpecDiscovery: cache nodes of a memcached cluster
DiscGsis == 1            \* SpecDiscovery: global secondary indexes of a table
DiscTokens == 1          \* SpecDiscovery: continuation tokens CloudWatch hands out
DiscErrors == 1          \* SpecDiscovery: GetMetricData calls that fail
LiveResources == 4       \* SpecLive: resources of the account (more than MaxConcurrency)
LiveTokens == 1          \* SpecLive: continuation tokens CloudWatch hands out
LiveErrors == 1          \* SpecLive: GetMetricData calls that fail
ListClusters == 3        \* SpecListing: cache clusters of the account
ListTables == 3          \* SpecListing: tables of the account
ListPageSize == 3        \* SpecListing: entries the service puts on a page, at most
MaxLimiterCalls == 4     \* SpecRateLimit: calls the retryer makes on the rate limiter

Limit == 100           \* ListTablesInput.Limit, the most entries of a page

Nil == 0               \* an absent NextToken (tokens are 1, 2, ...)

(***************************************************************************)
(* Strings.  Metric names are kept as tuples of characters so that         *)
(* strings.ToLower is computed character by character.                     *)
(***************************************************************************)
UpperChars == <<"A","B","C","D","E","F","G","H","I","J","K","L","M",
                "N","O","P","Q","R","S","T","U","V","W","X","Y","Z">>
LowerChars == <<"a","b","c","d","e","f","g","h","i","j","k","l","m",
                "n","o","p","q","r","s","t","u","v","w","x","y","z">>

ToLowerChar(c) ==
    IF \E k \in 1..Len(UpperChars) : UpperChars[k] = c
    THEN LowerChars[CHOOSE k \in 1..Len(UpperChars) : UpperChars[k] = c]
    ELSE c

\* strings.ToLower on a tuple of characters
ToLower(cs) == [k \in 1..Len(cs) |-> ToLowerChar(cs[k])]

RECURSIVE Str(_)
\* the Go string made of the characters cs
Str(cs) == IF cs = <<>> THEN "" ELSE Head(cs) \o Str(Tail(cs))

(***************************************************************************)
(* Resource descriptors: the target tables and GetMetricTargets.           *)
(***************************************************************************)
AwsElasticacheRedisNode == "AWS::Elasticache::RedisNode"
AwsElasticacheMemcachedNode == "AWS::Elasticache::MemcachedNode"
AwsDynamoDbTable == "AWS::DynamoDB::Table"
AwsDynamoDbGsi == "AWS::DynamoDB::GSI"

cacheMetricsToGet ==
    [ Sum |-> <<
          <<"N","e","t","w","o","r","k","B","y","t","e","s","I","n">>,
          <<"N","e","t","w","o","r","k","B","y","t","e","s","O","u","t">>,
          <<"G","e","o","S","p","a","t","i","a","l","B","a","s","e","d","C","m","d","s">>,
          <<"E","v","a","l","B","a","s","e","d","C","m","d","s">>,
          <<"G","e","t","T","y","p","e","C","m","d","s">>,
          <<"H","a","s","h","B","a","s","e","d","C","m","d","s">>,
          <<"J","s","o","n","B","a","s","e","d","C","m","d","s">>,
          <<"K","e","y","B","a","s","e","d","C","m","d","s">>,
          <<"L","i","s","t","B","a","s","e","d","C","m","d","s">>,
          <<"S","e","t","B","a","s","e","d","C","m","d","s">>,
          <<"S","e","t","T","y","p","e","C","m","d","s">>,
          <<"S","t","r","i","n","g","B","a","s","e","d","C","m","d","s">>,
          <<"P","u","b","S","u","b","B","a","s","e","d","C","m","d","s">>,
          <<"S","o","r","t","e","d","S","e","t","B","a","s","e","d","C","m","d","s">>,
          <<"S","t","r","e","a","m","B","a","s","e","d","C","m","d","s">>
      >>,
      Average |-> <<
          <<"D","B","0","A","v","e","r","a","g","e","T","T","L">>
      >>,
      Maximum |-> <<
          <<"C","u","r","r","C","o","n","n","e","c","t","i","o","n","s">>,
          <<"N","e","w","C","o","n","n","e","c","t","i","o","n","s">>,
          <<"E","n","g","i","n","e","C","P","U","U","t","i","l","i","z","a","t","i","o","n">>,
          <<"C","P","U","U","t","i","l","i","z","a","t","i","o","n">>,
          <<"F","r","e","e","a","b","l","e","M","e","m","o","r","y">>,
          <<"B","y","t","e","s","U","s","e","d","F","o","r","C","a","c","h","e">>,
          <<"D","a","t","a","b","a","s","e","M","e","m","o","r","y","U","s","a","g","e","P","e","r","c","e","n","t","a","g","e">>,
          <<"C","u","r","r","I","t","e","m","s">>,
          <<"K","e","y","s","T","r","a","c","k","e","d">>,
          <<"E","v","i","c","t","i","o","n","s">>,
          <<"C","a","c","h","e","H","i","t","R","a","t","e">>
      >> ]

ddbTableMetricsToGet ==
    [ Sum |-> <<
          <<"C","o","n","s","u","m","e","d","R","e","a","d","C","a","p","a","c","i","t","y","U","n","i","t","s">>,
          <<"C","o","n","s","u","m","e","d","W","r","i","t","e","C","a","p","a","c","i","t","y","U","n","i","t","s">>,
          <<"P","r","o","v","i","s","i","o","n","e","d","R","e","a","d","C","a","p","a","c","i","t","y","U","n","i","t","s">>,
          <<"P","r","o","v","i","s","i","o","n","e","d","W","r","i","t","e","C","a","p","a","c","i","t","y","U","n","i","t","s">>,
          <<"T","i","m","e","T","o","L","i","v","e","D","e","l","e","t","e","d","I","t","e","m","C","o","u","n","t">>
      >> ]

ddbGSIMetricsToGet ==
    [ Sum |-> <<
          <<"C","o","n","s","u","m","e","d","R","e","a","d","C","a","p","a","c","i","t","y","U","n","i","t","s">>,
          <<"C","o","n","s","u","m","e","d","W","r","i","t","e","C","a","p","a","c","i","t","y","U","n","i","t","s">>,
          <<"P","r","o","v","i","s","i","o","n","e","d","R","e","a","d","C","a","p","a","c","i","t","y","U","n","i","t","s">>,
          <<"P","r","o","v","i","s","i","o","n","e","d","W","r","i","t","e","C","a","p","a","c","i","t","y","U","n","i","t","s">>
      >> ]

\* the metric names of a target table
NamesOf(targets) ==
    UNION { { targets[s][k] : k \in 1..Len(targets[s]) } : s \in DOMAIN targets }

MetricNames ==
    NamesOf(cacheMetricsToGet) \cup NamesOf(ddbTableMetricsToGet)
        \cup NamesOf(ddbGSIMetricsToGet)

\* aws.String(metric) and strings.ToLower(metric) for the names of the tables
GoString == [ cs \in MetricNames |-> Str(cs) ]
LowerString == [ cs \in MetricNames |-> Str(ToLower(cs)) ]

\* the keys of a Go map[string][]string held as a record
StatTypes(targets) == DOMAIN targets

Dimension(name, value) == [Name |-> name, Value |-> value]

\* value of a Go map lookup m[key]: the zero string when the key is absent
MapGet(m, key) == IF key \in DOMAIN m THEN m[key] ELSE ""

\* variant: a redis node is addressed by its recorded cluster_id
ElasticacheGetMetricTargetsByGroup(r) ==
    [ Namespace  |-> "AWS/ElastiCache",
      Dimensions |-> << Dimension("CacheClusterId", MapGet(r.AdditionalData, "cluster_id")),
                        Dimension("CacheNodeId", IF r.Type = "AWS::Elasticache::RedisNode"
                                                 THEN "0001" ELSE r.ID) >>,
      Targets    |-> cacheMetricsToGet ]

ElasticacheGetMetricTargets(r) ==
    IF r.Type = "AWS::Elasticache::RedisNode"
    THEN [ Namespace  |-> "AWS/ElastiCache",
           Dimensions |-> << Dimension("CacheClusterId", r.ID),
                             Dimension("CacheNodeId", "0001") >>,
           Targets    |-> cacheMetricsToGet ]
    ELSE [ Namespace  |-> "AWS/ElastiCache",
           Dimensions |-> << Dimension("CacheClusterId", MapGet(r.AdditionalData, "cluster_id")),
                             Dimension("CacheNodeId", r.ID) >>,
           Targets    |-> cacheMetricsToGet ]

\* variant: every DynamoDB resource is addressed and measured as a table
DynamoDbGetMetricTargetsTableOnly(r) ==
    [ Namespace  |-> "AWS/DynamoDB",
      Dimensions |-> << Dimension("TableName", r.ID) >>,
      Targets    |-> ddbTableMetricsToGet ]

DynamoDbGetMetricTargets(r) ==
    IF r.Type = AwsDynamoDbGsi
    THEN [ Namespace  |-> "AWS/DynamoDB",
           Dimensions |-> << Dimension("TableName", r.ID),
                             Dimension("GlobalSecondaryIndexName", MapGet(r.AdditionalData, "gsi_name")) >>,
           Targets    |-> ddbGSIMetricsToGet ]
    ELSE [ Namespace  |-> "AWS/DynamoDB",
           Dimensions |-> << Dimension("TableName", r.ID) >>,
           Targets    |-> ddbTableMetricsToGet ]

\* variant: the dimensions are dropped once the resource holds series
GetMetricTargetsByMetrics(r) ==
    LET t == IF r.Resource = "Elasticache"
             THEN ElasticacheGetMetricTargets(r)
             ELSE DynamoDbGetMetricTargets(r)
    IN  IF r.Metrics = <<>> THEN t ELSE [ t EXCEPT !.Dimensions = <<>> ]

\* resource.Resource.GetMetricTargets(resource): dispatch on the descriptor
GetMetricTargets(r) ==
    IF r.Resource = "Elasticache"
    THEN ElasticacheGetMetricTargets(r)
    ELSE DynamoDbGetMetricTargets(r)

(***************************************************************************)
(* Discovery.  The account holds what the AWS listings answer; the two     *)
(* GetAll functions turn the listings into resource summaries.  A pointer  *)
(* field that may be nil is a tuple of length 0 or 1.  Identifiers that    *)
(* the code takes apart are tuples of characters.                          *)
(***************************************************************************)
NoMetrics == <<>>

NilPtr == <<>>
Ptr(v) == << v >>

\* strings.TrimPrefix(s, prefix)
TrimPrefix(s, prefix) ==
    IF Len(s) >= Len(prefix) /\ SubSeq(s, 1, Len(prefix)) = prefix
    THEN SubSeq(s, Len(prefix) + 1, Len(s))
    ELSE s

RECURSIVE Split(_, _)
\* strings.Split(s, sep) for a separator of one character
Split(s, sep) ==
    IF \E k \in 1..Len(s) : s[k] = sep
    THEN LET k == CHOOSE j \in 1..Len(s) :
                      s[j] = sep /\ \A h \in 1..(j - 1) : s[h] # sep
         IN  << SubSeq(s, 1, k - 1) >> \o Split(SubSeq(s, k + 1, Len(s)), sep)
    ELSE << s >>

\* strconv.FormatBool
FormatBool(b) == IF b THEN "true" ELSE "false"

\* strconv.FormatInt(n, 10) and strconv.Itoa
FormatInt(n) == ToString(n)

\* variant: the cluster id is split without stripping the group prefix
RedisNodeSummaryNoTrim(c) ==
    LET clusterModeEnabled ==
            /\ c.ReplicationGroupId # NilPtr
            /\ Len(Split(c.CacheClusterId, "-")) = 2
        clusterId == IF c.ReplicationGroupId # NilPtr
                     THEN c.ReplicationGroupId[1]
                     ELSE c.CacheClusterId
    IN  [ ID |-> Str(c.CacheClusterId), Type |-> AwsElasticacheRedisNode,
          AdditionalData |-> [ cluster_id |-> Str(clusterId), engine |-> c.Engine,
                               cache_node_type |-> c.CacheNodeType,
                               preferred_az |-> c.PreferredAvailabilityZone,
                               cluster_mode_enabled |-> FormatBool(clusterModeEnabled) ],
          Metrics |-> NoMetrics, Resource |-> "Elasticache" ]

\* Elasticache.GetAll, case "redis": the summary of one cache cluster
RedisNodeSummary(c) ==
    LET clusterModeEnabled ==
            /\ c.ReplicationGroupId # NilPtr
            /\ Len(Split(TrimPrefix(c.CacheClusterId,
                                    c.ReplicationGroupId[1] \o << "-" >>), "-")) = 2
        clusterId == IF c.ReplicationGroupId # NilPtr
                     THEN c.ReplicationGroupId[1]
                     ELSE c.CacheClusterId
    IN  [ ID |-> Str(c.CacheClusterId), Type |-> AwsElasticacheRedisNode,
          AdditionalData |-> [ cluster_id |-> Str(clusterId), engine |-> c.Engine,
                               cache_node_type |-> c.CacheNodeType,
                               preferred_az |-> c.PreferredAvailabilityZone,
                               cluster_mode_enabled |-> FormatBool(clusterModeEnabled) ],
          Metrics |-> NoMetrics, Resource |-> "Elasticache" ]

\* variant: the node's own id is recorded as cluster_id
MemcachedNodeSummaryOwnId(c, cacheNode) ==
    [ ID |-> cacheNode.CacheNodeId, Type |-> AwsElasticacheMemcachedNode,
      AdditionalData |-> [ cluster_id |-> cacheNode.CacheNodeId, engine |-> c.Engine,
                           cache_node_type |-> c.CacheNodeType,
                           preferred_az |-> cacheNode.CustomerAvailabilityZone,
                           cluster_mode_enabled |-> FormatBool(FALSE) ],
      Metrics |-> NoMetrics, Resource |-> "Elasticache" ]

\* Elasticache.GetAll, case "memcached": the summary of one node of a cluster
MemcachedNodeSummary(c, cacheNode) ==
    [ ID |-> cacheNode.CacheNodeId, Type |-> AwsElasticacheMemcachedNode,
      AdditionalData |-> [ cluster_id |-> Str(c.CacheClusterId), engine |-> c.Engine,
                           cache_node_type |-> c.CacheNodeType,
                           preferred_az |-> cacheNode.CustomerAvailabilityZone,
                           cluster_mode_enabled |-> FormatBool(FALSE) ],
      Metrics |-> NoMetrics, Resource |-> "Elasticache" ]

\* the body of the loop over rsp.CacheClusters: the summaries one cluster adds
ClusterSummaries(c) ==
    IF c.Engine = "redis" THEN << RedisNodeSummary(c) >>
    ELSE IF c.Engine = "memcached"
    THEN [ k \in 1..Len(c.CacheNodes) |-> MemcachedNodeSummary(c, c.CacheNodes[k]) ]
    ELSE <<>>

RECURSIVE ElasticacheGetAll(_)
\* Elasticache.GetAll, the loop over the clusters of one response
ElasticacheGetAll(clusters) ==
    IF clusters = <<>> THEN <<>>
    ELSE ClusterSummaries(Head(clusters)) \o ElasticacheGetAll(Tail(clusters))

\* the three optional throughput entries of a table's or an index's metadata
ThroughputMetadata(p) ==
    IF p = NilPtr THEN <<>>
    ELSE [ p_throughput_write_units |-> FormatInt(p[1].WriteCapacityUnits),
           p_throughput_read_units |-> FormatInt(p[1].ReadCapacityUnits),
           p_throughput_decreases_day |-> FormatInt(p[1].NumberOfDecreasesToday) ]

\* DynamoDb.GetAll: the Table summary built from DescribeTable/DescribeTimeToLive
TableSummary(t) ==
    LET ttlEnabled == t.TimeToLiveStatus = "ENABLED"
        avg_item_size == IF t.ItemCount # 0 THEN t.TableSizeBytes \div t.ItemCount ELSE 0
        billingMode == IF t.BillingModeSummary # NilPtr
                       THEN t.BillingModeSummary[1] ELSE "PROVISIONED"
    IN  [ ID |-> t.TableName, Type |-> AwsDynamoDbTable,
          AdditionalData |->
              [ ttl_enabled |-> FormatBool(ttlEnabled),
                item_count |-> FormatInt(t.ItemCount),
                table_size_bytes |-> FormatInt(t.TableSizeBytes),
                avg_item_size_bytes |-> FormatInt(avg_item_size),
                billing_mode |-> billingMode,
                gsi_count |-> FormatInt(Len(t.GlobalSecondaryIndexes)) ]
              @@ ThroughputMetadata(t.ProvisionedThroughput),
          Metrics |-> NoMetrics, Resource |-> "DynamoDb" ]

\* DynamoDb.GetAll: the GSI summary of one global secondary index of table t
GsiSummary(t, gsi) ==
    [ ID |-> t.TableName, Type |-> AwsDynamoDbGsi,
      AdditionalData |->
          [ gsi_name |-> gsi.IndexName,
            item_count |-> FormatInt(gsi.ItemCount),
            size_bytes |-> FormatInt(gsi.IndexSizeBytes) ]
          @@ ThroughputMetadata(gsi.ProvisionedThroughput)
          @@ (IF gsi.Projection # NilPtr
              THEN [ projection_type |-> gsi.Projection[1] ] ELSE <<>>),
      Metrics |-> NoMetrics, Resource |-> "DynamoDb" ]

\* the body of the loop over tables: the table's summary, then its gsiList
TableSummaries(t) ==
    << TableSummary(t) >>
    \o [ k \in 1..Len(t.GlobalSecondaryIndexes) |->
           GsiSummary(t, t.GlobalSecondaryIndexes[k]) ]

RECURSIVE DynamoDbGetAll(_)
\* DynamoDb.GetAll, the loop over the tables described without error
DynamoDbGetAll(tables) ==
    IF tables = <<>> THEN <<>>
    ELSE TableSummaries(Head(tables)) \o DynamoDbGetAll(Tail(tables))

(***************************************************************************)
(* The listing calls of the two GetAll functions.  acc is the account as   *)
(* the services present it: its clusters, its tables, and pageSize, the    *)
(* number of entries a service puts on one page of a listing.  failAt is   *)
(* the number of the call that fails (0 for none).  A run of GetAll is the *)
(* record of its requests, its results and its outcome: "ok", "error" (it  *)
(* returned nil, err) or "panic" (a nil pointer dereference).              *)
(***************************************************************************)
Min(a, b) == IF a < b THEN a ELSE b

\* the number of pages of a listing of n entries
PageCount(n, size) == IF n = 0 THEN 1 ELSE (n + size - 1) \div size

EcRequest(show, marker, failed) ==
    [ Api |-> "DescribeCacheClusters", ShowCacheNodeInfo |-> show, Marker |-> marker,
      failed |-> failed ]

\* the answer of ElastiCache: the page the marker stands for (a marker is the
\* number of the page that follows), with the cache nodes of the clusters
\* only when the request asks for them
DescribeCacheClusters(acc, input) ==
    LET p == IF input.Marker = Nil THEN 1 ELSE input.Marker
        first == (p - 1) * acc.pageSize + 1
        last == Min(p * acc.pageSize, Len(acc.clusters))
        page == SubSeq(acc.clusters, first, last)
    IN  [ CacheClusters |->
              [ k \in DOMAIN page |->
                  IF input.ShowCacheNodeInfo THEN page[k]
                  ELSE [ page[k] EXCEPT !.CacheNodes = <<>> ] ],
          Marker |-> IF last < Len(acc.clusters) THEN p + 1 ELSE Nil ]

RECURSIVE ElasticachePaginate(_, _, _, _, _)
\* the for loop of Elasticache.GetAll, entered with the response rsp: the
\* clusters of rsp, then the next page while rsp carries a Marker.  A failed
\* continuation is only logged, and the loop goes on to range over the
\* clusters of the nil response.
ElasticachePaginate(acc, rsp, requests, results, failAt) ==
    LET added == results \o ElasticacheGetAll(rsp.CacheClusters)
    IN  IF rsp.Marker = Nil
        THEN [ results |-> added, requests |-> requests, outcome |-> "ok" ]
        ELSE IF failAt = Len(requests) + 1
        THEN [ results |-> added,
               requests |-> Append(requests, EcRequest(FALSE, rsp.Marker, TRUE)),
               outcome |-> "panic" ]
        ELSE ElasticachePaginate(acc,
                 DescribeCacheClusters(acc, EcRequest(FALSE, rsp.Marker, FALSE)),
                 Append(requests, EcRequest(FALSE, rsp.Marker, FALSE)), added, failAt)

\* Elasticache.GetAll: the first request asks for the cache nodes
ElasticacheGetAllRun(acc, failAt) ==
    IF failAt = 1
    THEN [ results |-> <<>>, requests |-> << EcRequest(TRUE, Nil, TRUE) >>,
           outcome |-> "error" ]
    ELSE ElasticachePaginate(acc, DescribeCacheClusters(acc, EcRequest(TRUE, Nil, FALSE)),
                             << EcRequest(TRUE, Nil, FALSE) >>, <<>>, failAt)

ListTablesRequest(start, failed) ==
    [ Api |-> "ListTables", ExclusiveStartTableName |-> start, Limit |-> Limit,
      failed |-> failed ]

DescribeRequest(api, name, failed) == [ Api |-> api, TableName |-> name, failed |-> failed ]

\* the answer of DynamoDB to ListTables: the names after the start name, a
\* page of them, and the last name of the page when more names follow
ListTablesPage(acc, input) ==
    LET start == IF input.ExclusiveStartTableName = NilPtr THEN 0
                 ELSE CHOOSE k \in DOMAIN acc.tables :
                          acc.tables[k].TableName = input.ExclusiveStartTableName[1]
        last == Min(start + Min(acc.pageSize, input.Limit), Len(acc.tables))
    IN  [ TableNames |-> [ k \in 1..(last - start) |-> acc.tables[start + k].TableName ],
          LastEvaluatedTableName |->
              IF last < Len(acc.tables) THEN Ptr(acc.tables[last].TableName) ELSE NilPtr ]

\* the answers of DynamoDB to DescribeTable and DescribeTimeToLive
DescribeTable(acc, name) == CHOOSE t \in { acc.tables[k] : k \in DOMAIN acc.tables } : t.TableName = name

\* variant: the first page of the listing is taken for the whole listing
ListAllTablesFirstPage(acc, lastTableSeen, requests, tables, failAt) ==
    [ tables |-> tables, requests |-> requests, failed |-> FALSE ]

RECURSIVE ListAllTables(_, _, _, _, _)
\* DynamoDb.GetAll, the loop that merges the pages of the table listing
ListAllTables(acc, lastTableSeen, requests, tables, failAt) ==
    IF lastTableSeen = NilPtr
    THEN [ tables |-> tables, requests |-> requests, failed |-> FALSE ]
    ELSE IF failAt = Len(requests) + 1
    THEN [ tables |-> <<>>,
           requests |-> Append(requests, ListTablesRequest(lastTableSeen, TRUE)),
           failed |-> TRUE ]
    ELSE LET rsp == ListTablesPage(acc, ListTablesRequest(lastTableSeen, FALSE))
         IN  ListAllTables(acc, rsp.LastEvaluatedTableName,
                           Append(requests, ListTablesRequest(lastTableSeen, FALSE)),
                           tables \o rsp.TableNames, failAt)

\* the first n of the DescribeTable and DescribeTimeToLive calls of the loop
\* over tables, the last of them failed when failed is true
DescribeCalls(tables, n, failed) ==
    [ k \in 1..n |->
        DescribeRequest(IF k % 2 = 1 THEN "DescribeTable" ELSE "DescribeTimeToLive",
                        tables[(k + 1) \div 2], failed /\ k = n) ]

\* DynamoDb.GetAll: the table names of all pages, then each table described
DynamoDbGetAllRun(acc, failAt) ==
    IF failAt = 1
    THEN [ results |-> <<>>, requests |-> << ListTablesRequest(NilPtr, TRUE) >>,
           outcome |-> "error" ]
    ELSE LET rsp == ListTablesPage(acc, ListTablesRequest(NilPtr, FALSE))
             l == ListAllTables(acc, rsp.LastEvaluatedTableName,
                                << ListTablesRequest(NilPtr, FALSE) >>, rsp.TableNames, failAt)
             f == failAt - Len(l.requests)
         IN  IF l.failed
             THEN [ results |-> <<>>, requests |-> l.requests, outcome |-> "error" ]
             ELSE IF f \in 1..(2 * Len(l.tables))
             THEN [ results |-> <<>>,
                    requests |-> l.requests \o DescribeCalls(l.tables, f, TRUE),
                    outcome |-> "error" ]
             ELSE [ results |-> DynamoDbGetAll([ k \in DOMAIN l.tables |->
                                                   DescribeTable(acc, l.tables[k]) ]),
                    requests |-> l.requests
                                 \o DescribeCalls(l.tables, 2 * Len(l.tables), FALSE),
                    outcome |-> "ok" ]

\* the calls a GetAll makes at most: one per page, and two per table
EcCalls(acc) == PageCount(Len(acc.clusters), acc.pageSize)

DdbCalls(acc) == PageCount(Len(acc.tables), acc.pageSize) + 2 * Len(acc.tables)

(***************************************************************************)
(* The accounts the runs inspect.                                          *)
(***************************************************************************)
CacheNode(id, az) == [ CacheNodeId |-> id, CustomerAvailabilityZone |-> az ]

RedisCluster(id, group) ==
    [ CacheClusterId |-> id, ReplicationGroupId |-> group, Engine |-> "redis",
      CacheNodeType |-> "cache.t3.micro", PreferredAvailabilityZone |-> "us-west-2a",
      CacheNodes |-> << CacheNode("0001", "us-west-2a") >> ]

MemcachedCluster(id, nodes) ==
    [ CacheClusterId |-> id, ReplicationGroupId |-> NilPtr, Engine |-> "memcached",
      CacheNodeType |-> "cache.t3.micro", PreferredAvailabilityZone |-> "Multiple",
      CacheNodes |-> nodes ]

Gsi(k) ==
    [ IndexName |-> "index-" \o ToString(k), ItemCount |-> 0, IndexSizeBytes |-> 0,
      ProvisionedThroughput |-> NilPtr, Projection |-> NilPtr ]

Table(k, gsis) ==
    [ TableName |-> "table-" \o ToString(k), ItemCount |-> 0, TableSizeBytes |-> 0,
      BillingModeSummary |-> NilPtr, ProvisionedThroughput |-> NilPtr,
      TimeToLiveStatus |-> "DISABLED", GlobalSecondaryIndexes |-> gsis ]

\* tables with n summaries in all: tables with one index each, and a last
\* table without index when n is odd
DdbList(n) ==
    [ k \in 1..((n + 1) \div 2) |->
        Table(k, IF 2 * k <= n THEN << Gsi(k) >> ELSE <<>>) ]

DdbLists(max) == { DdbList(n) : n \in 0..max }

\* cluster listings: no cluster, one redis node, one memcached node
CacheLists ==
    { <<>>,
      << RedisCluster(<< "r", "g", "-", "0", "0", "1" >>, Ptr(<< "r", "g" >>)) >>,
      << MemcachedCluster(<< "m", "c" >>, << CacheNode("0001", "us-west-2b") >>) >> }

\* the AWS account the run inspects: what the two listings hold
Accounts(maxDdb) == [ clusters : CacheLists, tables : DdbLists(maxDdb), pageSize : { Limit } ]

\* cluster identifiers and replication groups of the redis clusters of
\* SpecDiscovery: with and without replication group, with a shard and node
\* suffix, a node suffix only, no suffix, and three suffixes
RedisIds ==
    { << "f", "o", "o", "-", "0", "0", "1", "-", "0", "0", "2" >>,
      << "f", "o", "o", "-", "0", "0", "1" >>,
      << "f", "o", "o" >>,
      << "f", "o", "o", "-", "0", "0", "1", "-", "0", "0", "2", "-", "0", "0", "3" >> }

RedisGroups == { NilPtr, Ptr(<< "f", "o", "o" >>) }

\* a node of a replication group whose name holds a hyphen
HyphenGroupNode ==
    RedisCluster(<< "f", "o", "o", "-", "0", "0", "1", "-", "0", "0", "2" >>,
                 Ptr(<< "f", "o", "o", "-", "0", "0", "1" >>))

\* a memcached cluster of n nodes, all in one availability zone
MemcachedNodes(n) == [ k \in 1..n |-> CacheNode("000" \o ToString(k), "us-west-2b") ]

\* a table with stored items, on-demand billing or provisioned throughput,
\* TTL enabled, and n indexes with a projection
RichGsi(k) ==
    [ IndexName |-> "index-" \o ToString(k), ItemCount |-> 2, IndexSizeBytes |-> 7,
      ProvisionedThroughput |->
          Ptr([ WriteCapacityUnits |-> 5, ReadCapacityUnits |-> 6,
                NumberOfDecreasesToday |-> 0 ]),
      Projection |-> Ptr("ALL") ]

RichTable(n) ==
    [ TableName |-> "orders", ItemCount |-> 3, TableSizeBytes |-> 10,
      BillingModeSummary |-> Ptr("PAY_PER_REQUEST"),
      ProvisionedThroughput |->
          Ptr([ WriteCapacityUnits |-> 5, ReadCapacityUnits |-> 6,
                NumberOfDecreasesToday |-> 1 ]),
      TimeToLiveStatus |-> "ENABLED",
      GlobalSecondaryIndexes |-> [ k \in 1..n |-> RichGsi(k) ] ]

PlainTable(n) == Table(1, [ k \in 1..n |-> Gsi(k) ])

\* the two nodes of a replication group without cluster mode
ReplicationGroup ==
    << RedisCluster(<< "f", "o", "o", "-", "0", "0", "1" >>, Ptr(<< "f", "o", "o" >>)),
       RedisCluster(<< "f", "o", "o", "-", "0", "0", "2" >>, Ptr(<< "f", "o", "o" >>)) >>

\* the accounts of SpecDiscovery: one cache cluster, one replication group
\* or one table
DiscoveryAccounts(maxNodes, maxGsis) ==
    { [ clusters |-> << RedisCluster(id, group) >>, tables |-> <<>>, pageSize |-> Limit ] :
        id \in RedisIds, group \in RedisGroups }
    \cup { [ clusters |-> ReplicationGroup, tables |-> <<>>, pageSize |-> Limit ],
           [ clusters |-> << HyphenGroupNode >>, tables |-> <<>>, pageSize |-> Limit ] }
    \cup { [ clusters |-> << MemcachedCluster(<< "m", "c", "-", "1" >>, MemcachedNodes(n)) >>,
             tables |-> <<>>, pageSize |-> Limit ] : n \in 0..maxNodes }
    \cup { [ clusters |-> <<>>, tables |-> << t >>, pageSize |-> Limit ] :
             t \in { PlainTable(n) : n \in 0..maxGsis }
                   \cup { RichTable(n) : n \in 0..maxGsis } }

\* the k-th cluster of a listing of SpecListing, of the given engine
ListedCluster(k, engine) ==
    IF engine = "redis"
    THEN RedisCluster(<< "r", "-", ToString(k) >>, NilPtr)
    ELSE MemcachedCluster(<< "m", "-", ToString(k) >>,
                          << CacheNode("0001", "us-west-2a") >>)

\* the accounts of SpecListing: clusters of either engine in any order, or
\* tables (the first of them with an index), listed in pages of any size
ListingAccounts(maxClusters, maxTables, maxPage) ==
    { [ clusters |-> [ k \in DOMAIN e |-> ListedCluster(k, e[k]) ], tables |-> <<>>,
        pageSize |-> p ] :
        e \in UNION { [ 1..n -> { "redis", "memcached" } ] : n \in 0..maxClusters },
        p \in 1..maxPage }
    \cup { [ clusters |-> <<>>,
             tables |-> [ k \in 1..n |-> Table(k, IF k = 1 THEN << Gsi(1) >> ELSE <<>>) ],
             pageSize |-> p ] : n \in 0..maxTables, p \in 1..maxPage }

(***************************************************************************)
(* State.                                                                  *)
(***************************************************************************)
VARIABLES
    account,            \* the resources of the AWS account (never changes)
    pc,                 \* position of the main goroutine
    exitCode,           \* exit code of the process once pc = "exited"
    handleErr,          \* the error Handle returns ("nil" for none)
    elasticacheNodes,   \* result of ec.GetAll()
    resources,          \* resourcesToFetchMetricsOn; tasks append to .Metrics
    idx,                \* position of the range loop of GetMetricsForResources
    guard,              \* number of elements buffered in the guard channel
    wg,                 \* counter of the WaitGroup
    bar,                \* current value of the progress bar
    task,               \* the fetchMetricsForResource goroutines, in spawn order
    call,               \* the GetMetricData call each goroutine waits for
    issued,             \* per goroutine, the GetMetricData calls issued so far
    tokens,             \* continuation tokens CloudWatch may still hand out
    errors,             \* GetMetricData calls CloudWatch may still fail
    data,               \* rows collected by writeOutResults
    file,               \* content of ./results.csv
    listing,            \* the listing calls the two GetAll functions made
    limiter             \* the calls made on the NoOpRateLimit, with their results

vars == << account, pc, exitCode, handleErr, elasticacheNodes, resources, idx, guard, wg,
           bar, task, call, issued, tokens, errors, data, file, listing, limiter >>

NoCall == [ MetricDataQueries |-> <<>>, StartTime |-> 0, EndTime |-> 0, NextToken |-> Nil ]
NoFile == [ exists |-> FALSE, rows |-> <<>> ]

\* the goroutines spawned so far
Tasks == DOMAIN task

Start ==
    /\ pc = "main"
    /\ exitCode = -1
    /\ handleErr = "nil"
    /\ elasticacheNodes = <<>>
    /\ resources = <<>>
    /\ idx = 0
    /\ guard = 0
    /\ wg = 0
    /\ bar = 0
    /\ task = <<>>
    /\ call = <<>>
    /\ issued = <<>>
    /\ data = <<>>
    /\ file = NoFile
    /\ listing = <<>>
    /\ limiter = <<>>

Init ==
    /\ Start
    /\ account \in Accounts(MaxDdbResources)
    /\ tokens = MaxTokens
    /\ errors = MaxErrors

InitFetch ==
    /\ Start
    /\ account \in Accounts(FetchDdbResources)
    /\ tokens = FetchTokens
    /\ errors = FetchErrors

InitDiscovery ==
    /\ Start
    /\ account \in DiscoveryAccounts(DiscNodes, DiscGsis)
    /\ tokens = DiscTokens
    /\ errors = DiscErrors

InitListing ==
    /\ Start
    /\ account \in ListingAccounts(ListClusters, ListTables, ListPageSize)
    /\ tokens = 0
    /\ errors = 0

(***************************************************************************)
(* main and Handler.Handle up to the fetch phase.                          *)
(***************************************************************************)
\* main: config.LoadDefaultConfig succeeds, or fails and the process exits 1
LoadConfig ==
    /\ pc = "main"
    /\ \/ /\ pc' = "ecGetAll"
          /\ UNCHANGED exitCode
       \/ /\ pc' = "exited"
          /\ exitCode' = 1
    /\ UNCHANGED << account, listing, limiter, handleErr, elasticacheNodes, resources, idx, guard, wg, bar,
                    task, call, issued, tokens, errors, data, file >>

\* Handle: elasticacheNodes, err := ec.GetAll(); if err != nil { return err }
\* (main panics on the error of Handle; a nil pointer dereference in GetAll
\* ends the process the same way, with no error returned by Handle)
EcGetAll ==
    /\ pc = "ecGetAll"
    /\ \E failAt \in 0..EcCalls(account) :
          \E run \in { ElasticacheGetAllRun(account, failAt) } :
             /\ listing' = listing \o run.requests
             /\ \/ /\ run.outcome = "ok"
                   /\ elasticacheNodes' = run.results
                   /\ pc' = "ddbGetAll"
                   /\ UNCHANGED << handleErr, exitCode >>
                \/ /\ run.outcome = "error"
                   /\ handleErr' = "discovery"
                   /\ pc' = "exited"
                   /\ exitCode' = 2
                   /\ UNCHANGED elasticacheNodes
                \/ /\ run.outcome = "panic"
                   /\ pc' = "exited"
                   /\ exitCode' = 2
                   /\ UNCHANGED << handleErr, elasticacheNodes >>
    /\ UNCHANGED << account, limiter, resources, idx, guard, wg, bar, task, call, issued,
                    tokens, errors, data, file >>

\* variant: a failed table discovery is remembered and the run goes on with
\* the cache nodes
DdbGetAllGoOn ==
    /\ pc = "ddbGetAll"
    /\ \E failAt \in 0..DdbCalls(account) :
          \E run \in { DynamoDbGetAllRun(account, failAt) } :
             /\ listing' = listing \o run.requests
             /\ \/ /\ run.outcome = "ok"
                   /\ resources' = run.results \o elasticacheNodes
                   /\ UNCHANGED handleErr
                \/ /\ run.outcome = "error"
                   /\ resources' = elasticacheNodes
                   /\ handleErr' = "discovery"
    /\ pc' = "getMetrics"
    /\ UNCHANGED << account, limiter, exitCode, elasticacheNodes, idx, guard, wg, bar, task, call,
                    issued, tokens, errors, data, file >>

\* Handle: ddbTables, err := ddb.GetAll(); if err != nil { return err };
\* resourcesToFetchMetricsOn := append(ddbTables, elasticacheNodes...)
DdbGetAll ==
    /\ pc = "ddbGetAll"
    /\ \E failAt \in 0..DdbCalls(account) :
          \E run \in { DynamoDbGetAllRun(account, failAt) } :
             /\ listing' = listing \o run.requests
             /\ \/ /\ run.outcome = "ok"
                   /\ resources' = run.results \o elasticacheNodes
                   /\ pc' = "getMetrics"
                   /\ UNCHANGED << handleErr, exitCode >>
                \/ /\ run.outcome = "error"
                   /\ handleErr' = "discovery"
                   /\ pc' = "exited"
                   /\ exitCode' = 2
                   /\ UNCHANGED resources
    /\ UNCHANGED << account, limiter, elasticacheNodes, idx, guard, wg, bar, task, call,
                    issued, tokens, errors, data, file >>

(***************************************************************************)
(* ResourceMetricFetcher.GetMetricsForResources (the dispatcher).          *)
(***************************************************************************)
\* bar := pb.Simple.Start(len(resources)); wg.Add(len(resources));
\* guard := make(chan struct{}, MaxConcurrency)
StartDispatch ==
    /\ pc = "getMetrics"
    /\ bar' = 0
    /\ wg' = Len(resources)
    /\ guard' = 0
    /\ idx' = 1
    /\ pc' = "loop"
    /\ UNCHANGED << account, listing, limiter, exitCode, handleErr, elasticacheNodes, resources, task,
                    call, issued, tokens, errors, data, file >>

\* guard <- struct{}{}: blocks while the channel buffer is full
Acquire ==
    /\ pc = "loop"
    /\ idx <= Len(resources)
    /\ guard < MaxConcurrency
    /\ guard' = guard + 1
    /\ pc' = "go"
    /\ UNCHANGED << account, listing, limiter, exitCode, handleErr, elasticacheNodes, resources, idx, wg, bar,
                    task, call, issued, tokens, errors, data, file >>

\* SpawnedTask with the fault of a goroutine that reads the loop variable only
\* when it runs and finds the last element there (C5 depends on the argument
\* being evaluated by the go statement)
SpawnedTaskLast(i) ==
    [ res |-> Len(resources), pc |-> "spawned",
      todo |-> StatTypes(GetMetricTargets(resources[Len(resources)]).Targets),
      stat |-> "", page |-> 0, failed |-> FALSE ]

\* the new goroutine: its argument is the element the loop is at; it has not
\* run yet.  res is the position of that element in resources.
SpawnedTask(i) ==
    [ res |-> i, pc |-> "spawned",
      todo |-> StatTypes(GetMetricTargets(resources[i]).Targets),
      stat |-> "", page |-> 0, failed |-> FALSE ]

\* go c.fetchMetricsForResource(resource)
Spawn ==
    /\ pc = "go"
    /\ task' = Append(task, SpawnedTask(idx))
    /\ call' = Append(call, NoCall)
    /\ issued' = Append(issued, <<>>)
    /\ pc' = "spawned"
    /\ UNCHANGED << account, listing, limiter, exitCode, handleErr, elasticacheNodes, resources, idx,
                    guard, wg, bar, tokens, errors, data, file >>

\* variant: the loop body does not receive the permit back from guard
DoneIncrementKeepPermit ==
    /\ pc = "spawned"
    /\ wg' = wg - 1
    /\ bar' = bar + 1
    /\ idx' = idx + 1
    /\ pc' = "loop"
    /\ UNCHANGED << account, listing, limiter, exitCode, handleErr, elasticacheNodes, resources, task, call,
                    issued, tokens, errors, data, file, guard >>

\* wg.Done(); bar.Increment(); <-guard   (the rest of the loop body, right
\* after the go statement), and on to the next element
DoneIncrementRelease ==
    /\ pc = "spawned"
    /\ wg' = wg - 1
    /\ bar' = bar + 1
    /\ guard' = guard - 1
    /\ idx' = idx + 1
    /\ pc' = "loop"
    /\ UNCHANGED << account, listing, limiter, exitCode, handleErr, elasticacheNodes, resources, task, call,
                    issued, tokens, errors, data, file >>

\* wg.Wait(); bar.Finish(): returns once the WaitGroup counter is zero
WaitAndFinish ==
    /\ pc = "loop"
    /\ idx > Len(resources)
    /\ wg = 0
    /\ pc' = "write"
    /\ UNCHANGED << account, listing, limiter, exitCode, handleErr, elasticacheNodes, resources, idx, guard,
                    wg, bar, task, call, issued, tokens, errors, data, file >>

(***************************************************************************)
(* ResourceMetricFetcher.fetchMetricsForResource (one goroutine per        *)
(* resource) and the CloudWatch answers.                                   *)
(***************************************************************************)
Running == pc # "exited"    \* goroutines end with the process

\* variant: the items of a query are identified by their statistic
BuildQueriesIdByStat(targets, statType) ==
    [ k \in 1..Len(targets.Targets[statType]) |->
        [ MetricStat |->
            [ Metric |-> [ MetricName |-> GoString[targets.Targets[statType][k]],
                           Namespace  |-> targets.Namespace,
                           Dimensions |-> targets.Dimensions ],
              Period |-> 60 * 60 * 24,
              Stat   |-> statType ],
          Id |-> statType ] ]

\* metricsToGrab: one MetricDataQuery per metric name of the statistic group
BuildQueries(targets, statType) ==
    [ k \in 1..Len(targets.Targets[statType]) |->
        [ MetricStat |->
            [ Metric |-> [ MetricName |-> GoString[targets.Targets[statType][k]],
                           Namespace  |-> targets.Namespace,
                           Dimensions |-> targets.Dimensions ],
              Period |-> 60 * 60 * 24,
              Stat   |-> statType ],
          Id |-> LowerString[targets.Targets[statType][k]] ] ]

\* variant: the query items of all statistic groups go into every request
FirstInputAllGroups(r, statType, now) ==
    LET t == GetMetricTargets(r)
        q(st) == IF st \in DOMAIN t.Targets THEN BuildQueries(t, st) ELSE <<>>
    IN  [ MetricDataQueries |-> q("Sum") \o q("Average") \o q("Maximum"),
          StartTime |-> now - 30 * 24, EndTime |-> now,
          NextToken |-> Nil ]

\* the GetMetricDataInput of the first request of a group, issued at hour
\* now: the 30 days up to now
FirstInput(r, statType, now) ==
    [ MetricDataQueries |-> BuildQueries(GetMetricTargets(r), statType),
      StartTime |-> now - 30 * 24, EndTime |-> now,
      NextToken |-> Nil ]

\* variant: a continuation request takes its time range anew
NextInputFresh(input, token) ==
    [ input EXCEPT !.NextToken = token, !.StartTime = @ + 1, !.EndTime = @ + 1 ]

\* the GetMetricDataInput of a continuation: the first request with the token
NextInput(input, token) == [ input EXCEPT !.NextToken = token ]

\* time.Now() as goroutine i reads it, in hours: the clock has advanced with
\* every request the goroutine has issued
Now(i) == Len(issued[i])

\* the samples CloudWatch puts on page p of an answer
PageValues(p) == << p >>

\* data.MetricDataResults of page p: one result per query, under the query's Id
MetricDataResults(queries, p) ==
    [ k \in 1..Len(queries) |->
        [ Id |-> queries[k].Id, Label |-> queries[k].MetricStat.Metric.MetricName,
          Values |-> PageValues(p) ] ]

\* variant: a series is stored under the label of the result
AppendResultsByLabel(metrics, results) ==
    metrics \o [ k \in 1..Len(results) |->
                   [ Name |-> results[k].Label, Values |-> results[k].Values ] ]

\* for _, metric := range data.MetricDataResults { resource.Metrics = append(...) }
AppendResults(metrics, results) ==
    metrics \o [ k \in 1..Len(results) |->
                   [ Name |-> results[k].Id, Values |-> results[k].Values ] ]

\* variant: the group just started stays among the groups still to visit
IssueFirstKeepTodo(i, statType, t) ==
    /\ task' = [ task EXCEPT ![i] =
                   [ t EXCEPT !.pc = "call", !.stat = statType, !.page = 1 ] ]
    /\ call' = [ call EXCEPT ![i] = FirstInput(resources[t.res], statType, Now(i)) ]
    /\ issued' = [ issued EXCEPT ![i] =
                     Append(@, [ Stat |-> statType, NextToken |-> Nil ]) ]

\* the goroutine issues the first GetMetricData call of group statType
IssueFirst(i, statType, t) ==
    /\ task' = [ task EXCEPT ![i] =
                   [ t EXCEPT !.pc = "call", !.todo = t.todo \ {statType},
                              !.stat = statType, !.page = 1 ] ]
    /\ call' = [ call EXCEPT ![i] = FirstInput(resources[t.res], statType, Now(i)) ]
    /\ issued' = [ issued EXCEPT ![i] =
                     Append(@, [ Stat |-> statType, NextToken |-> Nil ]) ]

\* the range over targets.Targets goes on with any group not yet visited, or
\* the function returns when there is none
NextGroup(i, t) ==
    IF t.todo = {}
    THEN /\ task' = [ task EXCEPT ![i] = [ t EXCEPT !.pc = "returned" ] ]
         /\ call' = [ call EXCEPT ![i] = NoCall ]
         /\ UNCHANGED issued
    ELSE \E statType \in t.todo : IssueFirst(i, statType, t)

\* the goroutine starts: GetMetricTargets, the first group, its first request
TaskStart(i) ==
    /\ Running
    /\ task[i].pc = "spawned"
    /\ NextGroup(i, task[i])
    /\ UNCHANGED << account, listing, limiter, pc, exitCode, handleErr, elasticacheNodes, resources, idx,
                    guard, wg, bar, tokens, errors, data, file >>

\* RespondError with the fault of going on with the next statistic group
\* after logging the error, instead of returning (C9 depends on the return)
RespondErrorContinue(i) ==
    /\ Running
    /\ task[i].pc = "call"
    /\ errors > 0
    /\ errors' = errors - 1
    /\ NextGroup(i, [ task[i] EXCEPT !.failed = TRUE ])
    /\ UNCHANGED << account, listing, limiter, pc, exitCode, handleErr, elasticacheNodes, resources, idx,
                    guard, wg, bar, tokens, data, file >>

\* GetMetricData returns an error: log it and return
RespondError(i) ==
    /\ Running
    /\ task[i].pc = "call"
    /\ errors > 0
    /\ errors' = errors - 1
    /\ task' = [ task EXCEPT ![i] = [ @ EXCEPT !.pc = "returned", !.failed = TRUE ] ]
    /\ call' = [ call EXCEPT ![i] = NoCall ]
    /\ UNCHANGED << account, listing, limiter, pc, exitCode, handleErr, elasticacheNodes, resources, idx,
                    guard, wg, bar, issued, tokens, data, file >>

\* variant: after a page with a NextToken the request just answered is sent
\* again
RespondMoreAgain(i) ==
    /\ Running
    /\ task[i].pc = "call"
    /\ tokens > 0
    /\ tokens' = tokens - 1
    /\ resources' = [ resources EXCEPT ![task[i].res].Metrics =
                        AppendResults(@, MetricDataResults(call[i].MetricDataQueries,
                                                           task[i].page)) ]
    /\ issued' = [ issued EXCEPT ![i] =
                     Append(@, [ Stat |-> task[i].stat, NextToken |-> call[i].NextToken ]) ]
    /\ UNCHANGED << account, listing, limiter, pc, exitCode, handleErr, elasticacheNodes,
                    idx, guard, wg, bar, errors, data, file, call, task >>

\* GetMetricData returns a page with a NextToken: append its results and
\* repeat the request with the token
RespondMore(i) ==
    /\ Running
    /\ task[i].pc = "call"
    /\ tokens > 0
    /\ tokens' = tokens - 1
    /\ resources' = [ resources EXCEPT ![task[i].res].Metrics =
                        AppendResults(@, MetricDataResults(call[i].MetricDataQueries,
                                                           task[i].page)) ]
    /\ call' = [ call EXCEPT ![i] = NextInput(@, task[i].page) ]
    /\ issued' = [ issued EXCEPT ![i] =
                     Append(@, [ Stat |-> task[i].stat, NextToken |-> task[i].page ]) ]
    /\ task' = [ task EXCEPT ![i].page = @ + 1 ]
    /\ UNCHANGED << account, listing, limiter, pc, exitCode, handleErr, elasticacheNodes, idx, guard, wg, bar,
                    errors, data, file >>

\* variant: the last page of a group replaces what the resource holds
RespondLastReplace(i) ==
    /\ Running
    /\ task[i].pc = "call"
    /\ resources' = [ resources EXCEPT ![task[i].res].Metrics =
                        AppendResults(<<>>, MetricDataResults(call[i].MetricDataQueries,
                                                              task[i].page)) ]
    /\ NextGroup(i, task[i])
    /\ UNCHANGED << account, listing, limiter, pc, exitCode, handleErr, elasticacheNodes, idx, guard, wg, bar,
                    tokens, errors, data, file >>

\* GetMetricData returns the last page of the group: append its results and
\* go on with the next group
RespondLast(i) ==
    /\ Running
    /\ task[i].pc = "call"
    /\ resources' = [ resources EXCEPT ![task[i].res].Metrics =
                        AppendResults(@, MetricDataResults(call[i].MetricDataQueries,
                                                           task[i].page)) ]
    /\ NextGroup(i, task[i])
    /\ UNCHANGED << account, listing, limiter, pc, exitCode, handleErr, elasticacheNodes, idx, guard, wg, bar,
                    tokens, errors, data, file >>

(***************************************************************************)
(* writeOutResults, the return of Handle and the end of main.              *)
(***************************************************************************)
Header == << "ResourceId", "Type", "AdditionalData", "Metrics" >>

\* a Go string as a JSON string (the strings of the model hold no character
\* that json.Marshal escapes)
JsonString(str) == "\"" \o str \o "\""

\* the keys AdditionalData can hold, in the sorted order json.Marshal writes
\* the entries of a map
SortedKeys ==
    << "avg_item_size_bytes", "billing_mode", "cache_node_type", "cluster_id",
       "cluster_mode_enabled", "engine", "gsi_count", "gsi_name", "item_count",
       "p_throughput_decreases_day", "p_throughput_read_units",
       "p_throughput_write_units", "preferred_az", "projection_type", "size_bytes",
       "table_size_bytes", "ttl_enabled" >>

RECURSIVE JsonJoin(_)
\* the elements of a JSON object or array, separated by commas
JsonJoin(parts) ==
    IF parts = <<>> THEN ""
    ELSE IF Len(parts) = 1 THEN parts[1]
    ELSE parts[1] \o "," \o JsonJoin(Tail(parts))

\* json.Marshal(r.AdditionalData) of a map[string]string
JsonMap(m) ==
    LET keys == SelectSeq(SortedKeys, LAMBDA key : key \in DOMAIN m)
    IN  "{" \o JsonJoin([ k \in 1..Len(keys) |->
                            JsonString(keys[k]) \o ":" \o JsonString(m[keys[k]]) ])
        \o "}"

\* a []float64 as JSON (the samples of the model are whole numbers)
JsonValues(values) ==
    "[" \o JsonJoin([ k \in 1..Len(values) |-> ToString(values[k]) ]) \o "]"

\* a MetricBlob as JSON, with its tags name and values
JsonBlob(b) ==
    "{\"name\":" \o JsonString(b.Name) \o ",\"values\":" \o JsonValues(b.Values) \o "}"

\* json.Marshal(r.Metrics): a slice nothing was appended to is nil and is
\* written as null
JsonMetrics(metrics) ==
    IF metrics = NoMetrics THEN "null"
    ELSE "[" \o JsonJoin([ k \in 1..Len(metrics) |-> JsonBlob(metrics[k]) ]) \o "]"

\* the row of one resource, read from the resource as it is now
Row(r) == << r.ID, r.Type, JsonMap(r.AdditionalData), JsonMetrics(r.Metrics) >>

\* variant: resources without series get no row
RowsOfFetched(results) ==
    << Header >> \o [ k \in 1..Len(SelectSeq(results, LAMBDA r : r.Metrics # NoMetrics)) |->
                        Row(SelectSeq(results, LAMBDA r : r.Metrics # NoMetrics)[k]) ]

\* data: the header and one row per element of results
Rows(results) == << Header >> \o [ k \in 1..Len(results) |-> Row(results[k]) ]

\* variant: a failed fetch makes the process end with a non-zero exit code
WriteOutResultsStrict ==
    /\ pc = "write"
    /\ \/ /\ handleErr' = "write"
          /\ UNCHANGED << data, file >>
       \/ /\ data' = Rows(resources)
          /\ \/ /\ file' = [ exists |-> TRUE, rows |-> data' ]
                /\ UNCHANGED handleErr
             \/ /\ file' = [ exists |-> TRUE, rows |-> <<>> ]
                /\ handleErr' = "write"
    /\ exitCode' = IF handleErr' = "nil" /\ \A g \in Tasks : ~task[g].failed THEN 0 ELSE 2
    /\ pc' = "exited"
    /\ UNCHANGED << account, listing, limiter, elasticacheNodes, resources, idx, guard, wg, bar,
                    task, call, issued, tokens, errors >>

\* Handle from writeOutResults on, and the end of main.  os.Create fails, or
\* the rows are built from the resources as they are and WriteAll writes them
\* or fails; Handle returns the error and main panics, or Handle returns nil
\* and main returns.  The goroutines end with the process.
WriteOutResults ==
    /\ pc = "write"
    /\ \/ /\ handleErr' = "write"
          /\ UNCHANGED << data, file >>
       \/ /\ data' = Rows(resources)
          /\ \/ /\ file' = [ exists |-> TRUE, rows |-> data' ]
                /\ UNCHANGED handleErr
             \/ /\ file' = [ exists |-> TRUE, rows |-> <<>> ]
                /\ handleErr' = "write"
    /\ exitCode' = IF handleErr' = "nil" THEN 0 ELSE 2
    /\ pc' = "exited"
    /\ UNCHANGED << account, listing, limiter, elasticacheNodes, resources, idx, guard, wg, bar,
                    task, call, issued, tokens, errors >>

Next ==
    \/ LoadConfig
    \/ EcGetAll
    \/ DdbGetAll
    \/ StartDispatch
    \/ Acquire
    \/ Spawn
    \/ DoneIncrementRelease
    \/ WaitAndFinish
    \/ \E i \in Tasks : TaskStart(i)
    \/ \E i \in Tasks : RespondError(i)
    \/ \E i \in Tasks : RespondMore(i)
    \/ \E i \in Tasks : RespondLast(i)
    \/ WriteOutResults

Spec == Init /\ [][Next]_vars

SpecFetch == InitFetch /\ [][Next]_vars

SpecDiscovery == InitDiscovery /\ [][Next]_vars

\* the discovery of Handle: the run up to the start of the fetch phase
NextListing ==
    \/ LoadConfig
    \/ EcGetAll
    \/ DdbGetAll

SpecListing == InitListing /\ [][NextListing]_vars

(***************************************************************************)
(* The run under fair scheduling: the main goroutine and every fetch       *)
(* goroutine get to run, and CloudWatch answers every request.  The number *)
(* of answers that carry a NextToken is finite (tokens).                   *)
(***************************************************************************)
InitLive ==
    /\ Start
    /\ account \in [ clusters : { <<>> }, tables : { DdbList(0), DdbList(LiveResources) },
                     pageSize : { Limit } ]
    /\ tokens = LiveTokens
    /\ errors = LiveErrors

\* a step of the main goroutine
MainStep ==
    \/ LoadConfig
    \/ EcGetAll
    \/ DdbGetAll
    \/ StartDispatch
    \/ Acquire
    \/ Spawn
    \/ DoneIncrementRelease
    \/ WaitAndFinish
    \/ WriteOutResults

\* a step of fetch goroutine i: it starts, or CloudWatch answers its request
TaskStep(i) ==
    /\ i \in Tasks
    /\ \/ TaskStart(i)
       \/ RespondError(i)
       \/ RespondMore(i)
       \/ RespondLast(i)

\* the main goroutine gets to run when it can, and so does some fetch
\* goroutine when one can (less than the fair scheduling of each goroutine)
Fairness ==
    /\ WF_vars(MainStep)
    /\ WF_vars(\E i \in Tasks : TaskStep(i))

SpecLive == InitLive /\ [][Next]_vars /\ Fairness

(***************************************************************************)
(* NoOpRateLimit, the rate limiter main gives the retryer of the clients.  *)
(* limiter is the history of the calls made on it with what each returned. *)
(***************************************************************************)
\* the costs the retryer asks tokens for (a uint), and the amounts it gives
\* back
Costs == { 0, 1, 5, 10 }

\* the cost of the tokens taken so far less the tokens added
Spent ==
    LET RECURSIVE Sum(_)
        Sum(k) == IF k = 0 THEN 0
                  ELSE Sum(k - 1) + ( CASE limiter[k].op = "GetToken" -> limiter[k].arg
                                        [] limiter[k].op = "AddTokens" -> 0 - limiter[k].arg
                                        [] OTHER -> 0 )
    IN  Sum(Len(limiter))

\* variant: a token bucket, which refuses a cost it does not hold
GetTokenBucket(cost) ==
    /\ Len(limiter) < MaxLimiterCalls
    /\ limiter' = Append(limiter,
                         IF Spent + cost > 10
                         THEN [ op |-> "GetToken", arg |-> cost, fn |-> "nil",
                                err |-> "QuotaExceeded" ]
                         ELSE [ op |-> "GetToken", arg |-> cost, fn |-> "noOpToken",
                                err |-> "nil" ])
    /\ UNCHANGED << account, listing, pc, exitCode, handleErr, elasticacheNodes, resources,
                    idx, guard, wg, bar, task, call, issued, tokens, errors, data, file >>

\* func (NoOpRateLimit) GetToken(context.Context, uint) (func() error, error)
\*     { return noOpToken, nil }
GetToken(cost) ==
    /\ Len(limiter) < MaxLimiterCalls
    /\ limiter' = Append(limiter, [ op |-> "GetToken", arg |-> cost, fn |-> "noOpToken",
                                    err |-> "nil" ])
    /\ UNCHANGED << account, listing, pc, exitCode, handleErr, elasticacheNodes, resources,
                    idx, guard, wg, bar, task, call, issued, tokens, errors, data, file >>

\* func noOpToken() error { return nil }: the retryer calls a release
\* function GetToken returned
noOpToken ==
    /\ Len(limiter) < MaxLimiterCalls
    /\ \E k \in DOMAIN limiter : limiter[k].fn = "noOpToken"
    /\ limiter' = Append(limiter, [ op |-> "noOpToken", arg |-> 0, fn |-> "nil",
                                    err |-> "nil" ])
    /\ UNCHANGED << account, listing, pc, exitCode, handleErr, elasticacheNodes, resources,
                    idx, guard, wg, bar, task, call, issued, tokens, errors, data, file >>

\* func (NoOpRateLimit) AddTokens(uint) error { return nil }
AddTokens(n) ==
    /\ Len(limiter) < MaxLimiterCalls
    /\ limiter' = Append(limiter, [ op |-> "AddTokens", arg |-> n, fn |-> "nil",
                                    err |-> "nil" ])
    /\ UNCHANGED << account, listing, pc, exitCode, handleErr, elasticacheNodes, resources,
                    idx, guard, wg, bar, task, call, issued, tokens, errors, data, file >>

InitRateLimit ==
    /\ Start
    /\ account = [ clusters |-> <<>>, tables |-> <<>>, pageSize |-> Limit ]
    /\ tokens = 0
    /\ errors = 0

NextRateLimit ==
    \/ \E cost \in Costs : GetToken(cost)
    \/ noOpToken
    \/ \E n \in Costs : AddTokens(n)

SpecRateLimit == InitRateLimit /\ [][NextRateLimit]_vars

(***************************************************************************)
(* Properties of the dispatcher and of the run.                            *)
(***************************************************************************)
\* goroutines that were started and have not finished
InFlight == { g \in Tasks : task[g].pc # "returned" }

\* goroutines that have finished (normally or after an error)
Finished == { g \in Tasks : task[g].pc = "returned" }

\* the range loop of GetMetricsForResources is over
LoopFinished ==
    \/ pc = "loop" /\ idx > Len(resources)
    \/ pc = "write"
    \/ pc = "exited" /\ idx >= 1

\* GetMetricsForResources has returned to Handle
FetchReturned == pc = "write" \/ (pc = "exited" /\ idx >= 1)

\* the permit sent to guard in the iteration of element i is in the channel,
\* respectively has been received back
PermitHeld(i) == idx = i /\ pc \in { "go", "spawned" }
PermitReleased(i) == idx > i

\* the correlation ids of the statistic group statType of resource r
GroupIds(r, statType) ==
    { LowerString[GetMetricTargets(r).Targets[statType][k]] :
        k \in 1..Len(GetMetricTargets(r).Targets[statType]) }

\* C1: the number of fetch tasks started and not yet finished never exceeds
\* MaxConcurrency.
C1_InFlightBounded == Cardinality(InFlight) <= MaxConcurrency

\* C2: once GetMetricsForResources has returned, every fetch task it
\* dispatched has terminated (none is running, none is still waiting to issue
\* its first request).
C2_ReturnWaitsForTasks == FetchReturned => InFlight = {}

\* C3: a task issues requests only with the permit of its resource taken, and
\* that permit is released only after the task has finished.
C3_PermitHeldForTaskLifetime ==
    \A g \in Tasks :
        /\ issued[g] # <<>> =>
               PermitHeld(task[g].res) \/ PermitReleased(task[g].res)
        /\ PermitReleased(task[g].res) => task[g].pc = "returned"

\* C4: when writeOutResults has read the resources, no fetch task can still
\* append to the Metrics of a resource: all tasks have finished.
C4_ReportReadsFinishedTasks == data # <<>> => \A g \in Tasks : task[g].pc = "returned"

\* C5: the tasks started are one per element of the resource list: no two
\* tasks hold the same resource, after the loop every element has its task,
\* and the Metrics of a resource are written by exactly one task.
C5_OneTaskPerResource ==
    /\ \A g, h \in Tasks : g # h => task[g].res # task[h].res
    /\ \A g \in Tasks : task[g].res \in 1..Len(resources)
    /\ LoopFinished => { task[g].res : g \in Tasks } = 1..Len(resources)
    /\ \A r \in 1..Len(resources) :
           resources[r].Metrics # <<>> =>
               Cardinality({ g \in Tasks : task[g].res = r /\ issued[g] # <<>> }) = 1

\* C5 witness: the loop is over on a list of at least two resources and every
\* resource has received series from its task.
C5_Witness ==
    /\ LoopFinished
    /\ Len(resources) >= 2
    /\ \A r \in 1..Len(resources) : resources[r].Metrics # <<>>

\* C6: the progress count never exceeds the number of finished fetch tasks,
\* and after the run it equals the number of resources.
C6_ProgressCountsCompletions ==
    /\ bar <= Cardinality(Finished)
    /\ FetchReturned => bar = Len(resources)

\* C7: when a fetch has failed and the run ends with the report written,
\* every other resource was fetched to completion, Handle returned no error,
\* and the report has one row for every resource.
C7_FailureDoesNotStopRun ==
    (pc = "exited" /\ file.rows # <<>> /\ \E g \in Tasks : task[g].failed) =>
        /\ \A h \in Tasks :
               ~task[h].failed => task[h].pc = "returned" /\ task[h].todo = {}
        /\ { task[g].res : g \in Tasks } = 1..Len(resources)
        /\ handleErr = "nil"
        /\ Len(file.rows) = Len(resources) + 1

(***************************************************************************)
(* Properties of the fetch of one resource.                                *)
(***************************************************************************)
\* C8: a statistic-kind one of whose page requests failed contributes no
\* series to the resource, also none from pages received before the failure.
C8_FailedKindContributesNothing ==
    \A g \in Tasks :
        task[g].failed =>
            \A j \in 1..Len(resources[task[g].res].Metrics) :
                resources[task[g].res].Metrics[j].Name
                    \notin GroupIds(resources[task[g].res], task[g].stat)

\* C9: once a request of a task has failed, the task issues no further
\* request and the series of its resource stay as they are; the step in which
\* it fails changes no series and leaves every other task and its outstanding
\* call untouched.
C9_FailureAbortsOnlyThatResource ==
    [][ \A g \in Tasks :
          /\ task[g].failed =>
                 /\ task'[g] = task[g]
                 /\ issued'[g] = issued[g]
                 /\ call'[g] = NoCall
                 /\ resources'[task[g].res] = resources[task[g].res]
          /\ (~task[g].failed /\ task'[g].failed) =>
                 /\ resources' = resources
                 /\ issued' = issued
                 /\ task'[g].todo = task[g].todo
                 /\ \A h \in Tasks \ {g} : task'[h] = task[h] /\ call'[h] = call[h] ]_vars

\* C9 witness: a task failed after an earlier statistic group had been
\* appended and with groups left unvisited, and another task has fetched its
\* resource to completion.
C9_Witness ==
    \E g, h \in Tasks :
        /\ g # h
        /\ task[g].failed
        /\ task[g].todo # {}
        /\ resources[task[g].res].Metrics # <<>>
        /\ task[h].pc = "returned" /\ ~task[h].failed
        /\ resources[task[h].res].Metrics # <<>>

\* the statistic groups a task has brought to their last page
CompletedGroups(g) ==
    { s \in StatTypes(GetMetricTargets(resources[task[g].res]).Targets) :
        /\ s \notin task[g].todo
        /\ s # task[g].stat \/ (task[g].pc = "returned" /\ ~task[g].failed) }

\* the number of GetMetricData calls a task issued for a statistic group
QueriesIssued(g, statType) ==
    Cardinality({ j \in 1..Len(issued[g]) : issued[g][j].Stat = statType })

RECURSIVE ConcatPages(_)
\* the samples of pages 1..k one after the other
ConcatPages(k) == IF k = 0 THEN <<>> ELSE ConcatPages(k - 1) \o PageValues(k)

\* C10: for a statistic group answered in k pages (k queries), the resource
\* holds for each metric name of the group one series, whose values are the
\* concatenation of the values of the k pages in page order.
C10_PagesMergedIntoOneSeries ==
    \A g \in Tasks :
        \A s \in CompletedGroups(g) :
            \A id \in GroupIds(resources[task[g].res], s) :
                LET m == resources[task[g].res].Metrics
                    at == { j \in 1..Len(m) : m[j].Name = id }
                IN  /\ Cardinality(at) = 1
                    /\ \A j \in at : m[j].Values = ConcatPages(QueriesIssued(g, s))

(***************************************************************************)
(* Metric targets and discovery (checked under SpecDiscovery).             *)
(***************************************************************************)
\* the dimensions of every query item of the call goroutine g waits for
CallDimensions(g) ==
    { call[g].MetricDataQueries[q].MetricStat.Metric.Dimensions :
        q \in DOMAIN call[g].MetricDataQueries }

\* C11: for every resource of type RedisNode GetMetricTargets returns the
\* dimension pair (CacheClusterId = the resource's own id, CacheNodeId =
\* "0001"), whatever the suffix of the id and whatever the recorded
\* cluster_id, and every query item built for the resource carries that pair.
C11_RedisDimensions ==
    \A k \in DOMAIN resources :
        resources[k].Type = AwsElasticacheRedisNode =>
            LET pair == << [ Name |-> "CacheClusterId", Value |-> resources[k].ID ],
                           [ Name |-> "CacheNodeId", Value |-> "0001" ] >>
            IN  /\ GetMetricTargets(resources[k]).Dimensions = pair
                /\ \A g \in Tasks : task[g].res = k => CallDimensions(g) \subseteq { pair }

\* a query is outstanding for a cluster-mode redis node whose cluster_id
\* differs from its id
C11_Witness ==
    \E g \in Tasks :
        /\ resources[task[g].res].Type = AwsElasticacheRedisNode
        /\ resources[task[g].res].AdditionalData.cluster_id # resources[task[g].res].ID
        /\ resources[task[g].res].AdditionalData.cluster_mode_enabled = "true"
        /\ CallDimensions(g) # {}

\* C12: for every resource of type MemcachedNode GetMetricTargets returns the
\* dimension pair (CacheClusterId = additionalData["cluster_id"], CacheNodeId
\* = the node's own id), and discovery records the CacheClusterId of the
\* owning cluster as cluster_id of each of the cluster's nodes.
C12_MemcachedDimensions ==
    /\ \A k \in DOMAIN resources :
           resources[k].Type = AwsElasticacheMemcachedNode =>
               LET pair == << [ Name |-> "CacheClusterId",
                                Value |-> resources[k].AdditionalData.cluster_id ],
                              [ Name |-> "CacheNodeId", Value |-> resources[k].ID ] >>
               IN  /\ GetMetricTargets(resources[k]).Dimensions = pair
                   /\ \A g \in Tasks : task[g].res = k => CallDimensions(g) \subseteq { pair }
    /\ pc = "ddbGetAll" =>
           \A j \in DOMAIN account.clusters :
               account.clusters[j].Engine = "memcached" =>
                   \A n \in DOMAIN account.clusters[j].CacheNodes :
                       \E k \in DOMAIN elasticacheNodes :
                           /\ elasticacheNodes[k].Type = AwsElasticacheMemcachedNode
                           /\ elasticacheNodes[k].ID
                                  = account.clusters[j].CacheNodes[n].CacheNodeId
                           /\ elasticacheNodes[k].AdditionalData.cluster_id
                                  = Str(account.clusters[j].CacheClusterId)
    /\ \A k \in DOMAIN elasticacheNodes :
           elasticacheNodes[k].Type = AwsElasticacheMemcachedNode =>
               \E j \in DOMAIN account.clusters :
                   /\ account.clusters[j].Engine = "memcached"
                   /\ elasticacheNodes[k].AdditionalData.cluster_id
                          = Str(account.clusters[j].CacheClusterId)
                   /\ \E n \in DOMAIN account.clusters[j].CacheNodes :
                          elasticacheNodes[k].ID
                              = account.clusters[j].CacheNodes[n].CacheNodeId

\* a query is outstanding for a memcached node discovered in a cluster
C12_Witness ==
    \E g \in Tasks :
        /\ resources[task[g].res].Type = AwsElasticacheMemcachedNode
        /\ resources[task[g].res].AdditionalData.cluster_id = "mc-1"
        /\ resources[task[g].res].ID = "0001"
        /\ CallDimensions(g) # {}

\* C13: at discovery a redis cluster with a replication group id has
\* cluster_mode_enabled "true" exactly when its cluster id, with the prefix
\* "<replication group id>-" removed, splits on "-" into exactly 2 segments
\* (that is, holds exactly one hyphen) and has the replication group id as
\* cluster_id; without replication group id cluster_mode_enabled is "false"
\* and cluster_id is the node's own id.
C13_ClusterModeDetection ==
    pc = "ddbGetAll" =>
        \A j \in DOMAIN account.clusters :
            LET c == account.clusters[j]
                prefix == c.ReplicationGroupId[1] \o << "-" >>
                prefixed == /\ Len(c.CacheClusterId) >= Len(prefix)
                            /\ \A h \in 1..Len(prefix) : c.CacheClusterId[h] = prefix[h]
                first == IF prefixed THEN Len(prefix) + 1 ELSE 1
                hyphens == Cardinality({ h \in first..Len(c.CacheClusterId) :
                                            c.CacheClusterId[h] = "-" })
            IN  c.Engine = "redis" =>
                    \E k \in DOMAIN elasticacheNodes :
                        LET s == elasticacheNodes[k]
                        IN  /\ s.Type = AwsElasticacheRedisNode
                            /\ s.ID = Str(c.CacheClusterId)
                            /\ IF c.ReplicationGroupId = NilPtr
                               THEN /\ s.AdditionalData.cluster_mode_enabled = "false"
                                    /\ s.AdditionalData.cluster_id = s.ID
                               ELSE /\ s.AdditionalData.cluster_mode_enabled
                                           = (IF hyphens = 1 THEN "true" ELSE "false")
                                    /\ s.AdditionalData.cluster_id
                                           = Str(c.ReplicationGroupId[1])

\* discovery has summarised cluster "foo-001-002" of replication group "foo"
\* as a cluster-mode node
C13_Witness ==
    /\ pc = "ddbGetAll"
    /\ \E k \in DOMAIN elasticacheNodes :
           /\ elasticacheNodes[k].ID = "foo-001-002"
           /\ elasticacheNodes[k].AdditionalData.cluster_id = "foo"
           /\ elasticacheNodes[k].AdditionalData.cluster_mode_enabled = "true"


\* the metric names of the query items of the call goroutine g waits for
CallMetricNames(g) ==
    { call[g].MetricDataQueries[q].MetricStat.Metric.MetricName :
        q \in DOMAIN call[g].MetricDataQueries }

\* C14: for a GSI resource GetMetricTargets returns namespace AWS/DynamoDB,
\* the dimensions (TableName = resource id, GlobalSecondaryIndexName =
\* additionalData["gsi_name"]) and a Sum metric set without
\* TimeToLiveDeletedItemCount; for a Table resource it returns the single
\* dimension TableName = resource id and a Sum metric set that is the GSI
\* set plus TimeToLiveDeletedItemCount; the queries built carry them.
C14_TableAndGsiTargets ==
    \A k \in DOMAIN resources :
        LET r == resources[k]
            t == GetMetricTargets(r)
            gsiSet == { "ConsumedReadCapacityUnits", "ConsumedWriteCapacityUnits",
                        "ProvisionedReadCapacityUnits", "ProvisionedWriteCapacityUnits" }
            sumSet == { GoString[t.Targets.Sum[n]] : n \in DOMAIN t.Targets.Sum }
            tableDims == << [ Name |-> "TableName", Value |-> r.ID ] >>
            gsiDims == << [ Name |-> "TableName", Value |-> r.ID ],
                          [ Name |-> "GlobalSecondaryIndexName",
                            Value |-> r.AdditionalData.gsi_name ] >>
        IN  /\ r.Type = AwsDynamoDbGsi =>
                   /\ t.Namespace = "AWS/DynamoDB"
                   /\ t.Dimensions = gsiDims
                   /\ DOMAIN t.Targets = { "Sum" }
                   /\ sumSet = gsiSet
                   /\ "TimeToLiveDeletedItemCount" \notin sumSet
                   /\ \A g \in Tasks :
                          task[g].res = k /\ call[g] # NoCall =>
                              /\ CallDimensions(g) = { gsiDims }
                              /\ CallMetricNames(g) = gsiSet
            /\ r.Type = AwsDynamoDbTable =>
                   /\ t.Namespace = "AWS/DynamoDB"
                   /\ t.Dimensions = tableDims
                   /\ DOMAIN t.Targets = { "Sum" }
                   /\ sumSet = gsiSet \cup { "TimeToLiveDeletedItemCount" }
                   /\ \A g \in Tasks :
                          task[g].res = k /\ call[g] # NoCall =>
                              /\ CallDimensions(g) = { tableDims }
                              /\ CallMetricNames(g)
                                     = gsiSet \cup { "TimeToLiveDeletedItemCount" }

\* queries are outstanding for a table and for one of its indexes at once
C14_Witness ==
    \E g, h \in Tasks :
        /\ resources[task[g].res].Type = AwsDynamoDbTable
        /\ resources[task[h].res].Type = AwsDynamoDbGsi
        /\ resources[task[h].res].ID = resources[task[g].res].ID
        /\ call[g] # NoCall
        /\ call[h] # NoCall

\* C15 as stated: any two resource summaries with the same type and the same
\* additionalData get the same namespace, dimensions and targets.
C15_TypeAndDataDetermineTargets ==
    \A k, l \in DOMAIN resources :
        /\ resources[k].Type = resources[l].Type
        /\ resources[k].AdditionalData = resources[l].AdditionalData
        => GetMetricTargets(resources[k]) = GetMetricTargets(resources[l])

\* C15 (amended): the target specification is a function of (id, type,
\* additionalData): two summaries with the same id, type and additionalData
\* get the same namespace, dimensions and targets whatever series they hold,
\* and every later call on a resource returns what the earlier call returned.
C15_IdTypeAndDataDetermineTargets ==
    [][ /\ \A k, l \in DOMAIN resources :
              /\ resources[k].ID = resources[l].ID
              /\ resources[k].Type = resources[l].Type
              /\ resources[k].AdditionalData = resources[l].AdditionalData
              => GetMetricTargets(resources[k]) = GetMetricTargets(resources[l])
        /\ \A k \in DOMAIN resources :
              k \in DOMAIN resources' =>
                  /\ resources'[k].ID = resources[k].ID
                  /\ resources'[k].Type = resources[k].Type
                  /\ resources'[k].AdditionalData = resources[k].AdditionalData
                  /\ GetMetricTargets(resources'[k]) = GetMetricTargets(resources[k])
      ]_vars

\* a goroutine asks for the targets of a resource that holds series of an
\* earlier statistic group
C15_Witness ==
    \E g \in Tasks :
        /\ resources[task[g].res].Metrics # <<>>
        /\ call[g] # NoCall
        /\ call[g].NextToken = Nil

(***************************************************************************)
(* The queries of the fetcher.                                             *)
(***************************************************************************)
\* the target tables of the resource kinds: cache node, table, GSI
TargetTables == { cacheMetricsToGet, ddbTableMetricsToGet, ddbGSIMetricsToGet }

\* the (statistic, position) pairs of a target table
TargetKeys(targets) ==
    UNION { { << st, n >> : n \in DOMAIN targets[st] } : st \in DOMAIN targets }

\* strings.ToLower leaves no upper-case letter and changes nothing else
LowerCased ==
    \A cs \in MetricNames :
        /\ Len(ToLower(cs)) = Len(cs)
        /\ \A h \in DOMAIN cs :
               /\ \A u \in DOMAIN UpperChars : ToLower(cs)[h] # UpperChars[u]
               /\ (\A u \in DOMAIN UpperChars : cs[h] # UpperChars[u])
                      => ToLower(cs)[h] = cs[h]
               /\ \A u \in DOMAIN UpperChars :
                      cs[h] = UpperChars[u] => ToLower(cs)[h] = LowerChars[u]

\* the lower-cased names of each target table are pairwise distinct
DistinctInTables ==
    \A t \in TargetTables :
        \A p, q \in TargetKeys(t) :
            p # q => ToLower(t[p[1]][p[2]]) # ToLower(t[q[1]][q[2]])

\* C16: every query item's correlation id is the lower-cased metric name;
\* within the target tables of a resource's kind the lower-cased names are
\* pairwise distinct across all statistic groups, and no two query items of
\* one query share an id.
C16_CorrelationIdsDistinct ==
    /\ LowerCased
    /\ DistinctInTables
    /\ \A k \in DOMAIN resources :
           GetMetricTargets(resources[k]).Targets \in TargetTables
    /\ \A g \in Tasks :
           LET items == call[g].MetricDataQueries
               names == GetMetricTargets(resources[task[g].res]).Targets
           IN  /\ \A a, b \in DOMAIN items : a # b => items[a].Id # items[b].Id
               /\ \A a \in DOMAIN items :
                      /\ items[a].MetricStat.Metric.MetricName
                             = GoString[names[task[g].stat][a]]
                      /\ items[a].Id = LowerString[names[task[g].stat][a]]

\* a query of several items is outstanding for a cache node
C16_Witness ==
    \E g \in Tasks :
        /\ resources[task[g].res].Type = AwsElasticacheRedisNode
        /\ task[g].stat = "Maximum"
        /\ Len(call[g].MetricDataQueries) > 1

\* C17: for each (statistic, metric name set) pair of a resource's target
\* specification the fetcher builds exactly one batched query with exactly
\* one query item per metric name of the set, every item carrying that
\* statistic, the specification's namespace and dimensions and a period of
\* one day, and no item of another statistic.
C17_OneBatchedQueryPerGroup ==
    \A g \in Tasks :
        LET t == GetMetricTargets(resources[task[g].res])
            items == call[g].MetricDataQueries
            firstRequests(s) == { j \in DOMAIN issued[g] :
                                    issued[g][j].Stat = s /\ issued[g][j].NextToken = Nil }
        IN  /\ call[g] # NoCall =>
                   /\ task[g].stat \in DOMAIN t.Targets
                   /\ Len(items) = Len(t.Targets[task[g].stat])
                   /\ \A a \in DOMAIN items :
                          /\ items[a].MetricStat.Metric.MetricName
                                 = GoString[t.Targets[task[g].stat][a]]
                          /\ items[a].MetricStat.Stat = task[g].stat
                          /\ items[a].MetricStat.Metric.Namespace = t.Namespace
                          /\ items[a].MetricStat.Metric.Dimensions = t.Dimensions
                          /\ items[a].MetricStat.Period = 86400
            /\ \A j \in DOMAIN issued[g] : issued[g][j].Stat \in DOMAIN t.Targets
            /\ \A s \in DOMAIN t.Targets :
                   /\ Cardinality(firstRequests(s)) <= 1
                   /\ s \in task[g].todo => firstRequests(s) = {}
                   /\ s \notin task[g].todo => Cardinality(firstRequests(s)) = 1
            /\ task[g].pc = "returned" /\ ~task[g].failed =>
                   \A s \in DOMAIN t.Targets : Cardinality(firstRequests(s)) = 1

\* a goroutine has gone through the three groups of a cache node and waits
\* for the answer to the query of the last one
C17_Witness ==
    \E g \in Tasks :
        /\ resources[task[g].res].Resource = "Elasticache"
        /\ task[g].todo = {}
        /\ Len(call[g].MetricDataQueries) > 1
        /\ Len(issued[g]) >= 3

(***************************************************************************)
(* The report.                                                             *)
(***************************************************************************)
\* C18: writeOutResults produces exactly one header row (ResourceId, Type,
\* AdditionalData, Metrics) followed by exactly one data row per element of
\* the resource list, for any list including the empty one and including
\* resources without series; each row carries the resource's id, its type,
\* its additionalData as JSON and its metrics as JSON.
C18_OneRowPerResource ==
    data # <<>> =>
        /\ data[1] = << "ResourceId", "Type", "AdditionalData", "Metrics" >>
        /\ Len(data) = 1 + Len(resources)
        /\ file.rows # <<>> => file.rows = data
        /\ \A k \in DOMAIN resources :
               LET r == resources[k]
                   row == data[k + 1]
               IN  /\ Len(row) = 4
                   /\ row[1] = r.ID
                   /\ row[2] = r.Type
                   /\ row[3] = JsonMap(r.AdditionalData)
                   /\ row[4] = JsonMetrics(r.Metrics)
                   /\ r.Metrics = <<>> => row[4] = "null"
                   /\ r.Type = AwsElasticacheMemcachedNode /\ r.ID = "0001" =>
                          row[3] = "{\"cache_node_type\":\"cache.t3.micro\","
                                   \o "\"cluster_id\":\"mc\","
                                   \o "\"cluster_mode_enabled\":\"false\","
                                   \o "\"engine\":\"memcached\","
                                   \o "\"preferred_az\":\"us-west-2b\"}"
                   /\ r.Type = AwsDynamoDbTable /\ Len(r.Metrics) = 5
                      /\ (\A b \in DOMAIN r.Metrics : r.Metrics[b].Values = << 1 >>) =>
                          row[4] = "[{\"name\":\"consumedreadcapacityunits\",\"values\":[1]},"
                                   \o "{\"name\":\"consumedwritecapacityunits\",\"values\":[1]},"
                                   \o "{\"name\":\"provisionedreadcapacityunits\",\"values\":[1]},"
                                   \o "{\"name\":\"provisionedwritecapacityunits\",\"values\":[1]},"
                                   \o "{\"name\":\"timetolivedeleteditemcount\",\"values\":[1]}]"

\* the report of two resources was written, one of them without series
C18_Witness ==
    /\ file.rows # <<>>
    /\ Len(resources) = 2
    /\ resources[1].Type = AwsDynamoDbTable
    /\ Len(resources[1].Metrics) = 5
    /\ resources[2].Type = AwsElasticacheMemcachedNode
    /\ resources[2].Metrics = <<>>

\* C19: every series stored in a resource's metrics has as name the
\* lower-cased name of one of the target metric names of the resource's type,
\* given that CloudWatch answers each query item under the id it was sent
\* with; no other series name ever appears.
C19_SeriesNamesAreTargetNames ==
    \A k \in DOMAIN resources :
        LET t == IF resources[k].Type \in { AwsElasticacheRedisNode,
                                            AwsElasticacheMemcachedNode }
                 THEN cacheMetricsToGet
                 ELSE IF resources[k].Type = AwsDynamoDbGsi
                 THEN ddbGSIMetricsToGet
                 ELSE ddbTableMetricsToGet
            lowered == { LowerString[t[p[1]][p[2]]] : p \in TargetKeys(t) }
        IN  \A b \in DOMAIN resources[k].Metrics :
                resources[k].Metrics[b].Name \in lowered

\* a cache node holds the series of its three statistic groups
C19_Witness ==
    \E k \in DOMAIN resources :
        /\ resources[k].Type = AwsElasticacheRedisNode
        /\ Len(resources[k].Metrics) >= 27
        /\ \E b \in DOMAIN resources[k].Metrics :
               resources[k].Metrics[b].Name = "db0averagettl"

(***************************************************************************)
(* Discovery failures.                                                     *)
(***************************************************************************)
\* C20: when the ElastiCache discovery or the DynamoDB discovery returns an
\* error, Handle returns that error at once: the run ends with it, no fetch
\* goroutine was started, no metric query was issued and the report file was
\* not created; so queries and the report exist only in runs whose two
\* discoveries succeeded.
C20_DiscoveryFailureAborts ==
    /\ handleErr = "discovery" =>
           /\ pc = "exited"
           /\ exitCode # 0
           /\ idx = 0
           /\ task = <<>>
           /\ call = <<>>
           /\ issued = <<>>
           /\ resources = <<>>
           /\ data = <<>>
           /\ file = NoFile
    /\ pc \in { "ecGetAll", "ddbGetAll" } =>
           task = <<>> /\ issued = <<>> /\ file = NoFile

\* the cache nodes were discovered, the table discovery failed and the run
\* is over
C20_Witness ==
    /\ handleErr = "discovery"
    /\ elasticacheNodes # <<>>
    /\ pc = "exited"

(***************************************************************************)
(* Exit code.                                                              *)
(***************************************************************************)
\* C21: the process ends with exit code 0 when configuration loading,
\* discovery, fetching and report writing all complete, and with a non-zero
\* exit code when configuration loading fails or Handle returns an error
\* (discovery failure or report write failure); a failed fetch alone never
\* makes the exit code non-zero.
C21_ExitCode ==
    [][ /\ pc = "main" /\ pc' = "exited" => exitCode' # 0
        /\ pc' = "exited" /\ handleErr' # "nil" => exitCode' # 0
        /\ pc = "write" /\ pc' # "write" /\ handleErr' = "nil" =>
               /\ pc' = "exited"
               /\ exitCode' = 0
               /\ file'.rows # <<>>
        /\ pc' = "exited" /\ exitCode' = 0 =>
               pc = "write" /\ handleErr' = "nil" /\ file'.rows # <<>>
        /\ pc' # "exited" => exitCode' = -1
      ]_vars

\* the report was written and the process ended with exit code 0 although a
\* fetch had failed
C21_Witness ==
    /\ pc = "exited"
    /\ exitCode = 0
    /\ file.rows # <<>>
    /\ \E g \in Tasks : task[g].failed

(***************************************************************************)
(* The requests of a fetch goroutine.                                      *)
(***************************************************************************)
\* C22: the fetcher retries nothing: for each resource and statistic group
\* the first request and the request of each continuation token are issued
\* at most once, and after a request has failed the goroutine issues no
\* further request for its resource.
C22_NoRetries ==
    [][ \A g \in Tasks :
          /\ \A a, b \in DOMAIN issued'[g] :
                 a # b => issued'[g][a] # issued'[g][b]
          /\ task'[g].failed =>
                 /\ call'[g] = NoCall
                 /\ task'[g].pc = "returned"
                 /\ issued'[g] = issued[g]
      ]_vars

\* a request of a continuation token has failed after an earlier group of
\* the resource was fetched
C22_Witness ==
    \E g \in Tasks :
        /\ task[g].failed
        /\ Len(issued[g]) >= 3
        /\ issued[g][Len(issued[g])].NextToken # Nil

\* the number of series of group statType stored in resource k
SeriesOfGroup(k, statType) ==
    Cardinality({ b \in DOMAIN resources[k].Metrics :
                    resources[k].Metrics[b].Name \in GroupIds(resources[k], statType) })

\* C23: within one statistic group of one resource the pages are fetched in
\* strict sequence: a continuation request is issued only after the answer to
\* the request before it was received and appended, it carries the token of
\* that answer with the query items, start time and end time of the first
\* request, and after the answer without token no request of the group
\* follows; a goroutine has one request outstanding at most.
C23_PagesInSequence ==
    [][ \A g \in Tasks :
          LET n == Len(issued[g])
              last == issued[g][n]
          IN  /\ call[g] # NoCall =>
                     /\ last = [ Stat |-> task[g].stat, NextToken |-> call[g].NextToken ]
                     /\ SeriesOfGroup(task[g].res, task[g].stat)
                            = call[g].NextToken * Len(call[g].MetricDataQueries)
                     /\ call[g].EndTime - call[g].StartTime = 30 * 24
              /\ Len(issued'[g]) \in { n, n + 1 }
              /\ Len(issued'[g]) = n + 1 =>
                     /\ call'[g] # NoCall
                     /\ issued'[g][n + 1].NextToken # Nil =>
                            /\ call[g] # NoCall
                            /\ issued'[g][n + 1].Stat = last.Stat
                            /\ issued'[g][n + 1].NextToken = last.NextToken + 1
                            /\ call'[g].NextToken = issued'[g][n + 1].NextToken
                            /\ call'[g].MetricDataQueries = call[g].MetricDataQueries
                            /\ call'[g].StartTime = call[g].StartTime
                            /\ call'[g].EndTime = call[g].EndTime
                            /\ Len(resources'[task[g].res].Metrics)
                                   = Len(resources[task[g].res].Metrics)
                                     + Len(call[g].MetricDataQueries)
                     /\ issued'[g][n + 1].NextToken = Nil =>
                            \A j \in 1..n : issued[g][j].Stat # issued'[g][n + 1].Stat
      ]_vars

\* the request of the second continuation token of a group is outstanding
C23_Witness ==
    \E g \in Tasks :
        /\ call[g] # NoCall
        /\ call[g].NextToken = 2
        /\ Len(issued[g]) >= 3

\* p is a prefix of q
IsPrefix(p, q) == Len(p) <= Len(q) /\ SubSeq(q, 1, Len(p)) = p

\* the goroutines that take a step
Stepping == { g \in Tasks : task'[g] # task[g] }

\* C27: a fetch task of resource R changes only the Metrics of R, and only
\* by appending: ID, Type and AdditionalData of R, every other resource and
\* the order and length of the resource list stay as they are, and the
\* Metrics R held before the step are a prefix of those it holds after it.
\* (The target tables are definitions of the module: no step assigns them.)
C27_TaskAppendsOnlyToItsMetrics ==
    [][ Stepping # {} =>
          /\ Len(resources') = Len(resources)
          /\ \A k \in DOMAIN resources :
                 /\ [ resources'[k] EXCEPT !.Metrics = <<>> ]
                        = [ resources[k] EXCEPT !.Metrics = <<>> ]
                 /\ IsPrefix(resources[k].Metrics, resources'[k].Metrics)
                 /\ resources'[k].Metrics # resources[k].Metrics =>
                        \E g \in Stepping : task[g].res = k /\ task[g].pc = "call"
          /\ UNCHANGED << account, elasticacheNodes, file, data >>
      ]_vars

\* a goroutine has appended a page to a resource that held series already,
\* while another resource holds series too
C27_Witness ==
    \E g \in Tasks : \E k \in DOMAIN resources :
        /\ task[g].res # k
        /\ resources[k].Metrics # <<>>
        /\ task[g].page = 2
        /\ Len(issued[g]) >= 3
        /\ Len(resources[task[g].res].Metrics) > 2

\* for each target table, the statistic group of each query id of the table
GroupOfId ==
    [ t \in TargetTables |->
        [ id \in { LowerString[n] : n \in NamesOf(t) } |->
            CHOOSE statType \in DOMAIN t :
                \E k \in DOMAIN t[statType] : LowerString[t[statType][k]] = id ] ]

\* the statistic group each series stored in resource r belongs to
GroupsOfSeries(r) ==
    [ b \in DOMAIN r.Metrics |-> GroupOfId[GetMetricTargets(r).Targets][r.Metrics[b].Name] ]

\* the equal elements of a sequence are next to each other
InBlocks(seq) ==
    seq # <<>> =>
        Cardinality({ a \in 1..(Len(seq) - 1) : seq[a] # seq[a + 1] }) + 1
            = Cardinality({ seq[a] : a \in DOMAIN seq })

\* C29: within one resource the statistic groups are processed one after
\* another: the first query of a group is issued in the step that appends
\* the last page of the group before it, the requests of one group are
\* consecutive, the series of one group form one contiguous block of
\* Metrics, and a page is appended in the order the provider returned it.
C29_GroupsOneAfterAnother ==
    [][ \A g \in Stepping :
          \E grp \in { GroupsOfSeries(resources'[task[g].res]) } :
          \E page \in { MetricDataResults(call[g].MetricDataQueries, task[g].page) } :
          LET m == resources[task[g].res].Metrics
              m2 == resources'[task[g].res].Metrics
              n2 == Len(issued'[g])
          IN  /\ InBlocks([ a \in DOMAIN issued'[g] |-> issued'[g][a].Stat ])
              /\ InBlocks(grp)
              /\ \A b \in DOMAIN m2 : \E a \in DOMAIN issued[g] : grp[b] = issued[g][a].Stat
              /\ m2 # m =>
                     /\ call[g] # NoCall
                     /\ Len(m2) = Len(m) + Len(page)
                     /\ \A k \in DOMAIN page :
                            /\ m2[Len(m) + k] = [ Name |-> page[k].Id, Values |-> page[k].Values ]
                            /\ grp[Len(m) + k] = task[g].stat
              /\ ( /\ n2 > Len(issued[g])
                    /\ Len(issued[g]) > 0
                    /\ issued'[g][n2].NextToken = Nil ) =>
                     /\ m2 # m
                     /\ issued'[g][n2].Stat # task[g].stat
      ]_vars

\* a resource holds the two pages of one group followed by the series of a
\* second group
C29_Witness ==
    \E g \in Tasks :
        LET m == resources[task[g].res].Metrics
        IN  /\ Len(issued[g]) >= 3
            /\ issued[g][1].Stat = issued[g][2].Stat
            /\ issued[g][3].Stat # issued[g][1].Stat
            /\ m # <<>>
            /\ GroupsOfSeries(resources[task[g].res])[Len(m)] = issued[g][3].Stat

(***************************************************************************)
(* The rate limiter of the retryer.                                        *)
(***************************************************************************)
\* C30: client-side token throttling is disabled: whatever the cost asked
\* and whatever calls came before, GetToken returns the release function
\* noOpToken and no error, the release function returns no error and
\* AddTokens returns no error.
C30_NeverRefuses ==
    \A k \in DOMAIN limiter :
        /\ limiter[k].err = "nil"
        /\ limiter[k].op = "GetToken" => limiter[k].fn = "noOpToken"

\* tokens of a cost beyond anything added were asked for, and a release
\* function was called
C30_Witness ==
    /\ Len(limiter) = MaxLimiterCalls
    /\ Spent >= 20
    /\ limiter[Len(limiter)].op = "GetToken"
    /\ \E k \in DOMAIN limiter : limiter[k].op = "noOpToken"

(***************************************************************************)
(* Termination.                                                            *)
(***************************************************************************)
\* C28: under fair scheduling, with CloudWatch answering every request and
\* handing out finitely many continuation tokens, every fetch goroutine
\* comes to an end (each of its steps finishes it, finishes a group or uses
\* up a token or an error of the provider, and it returns unless the process
\* ends first), the dispatcher is never blocked at the admission gate (the
\* send to guard can be taken whenever the loop is at an element), and
\* GetMetricsForResources returns, for the empty list as well.
C28_Termination ==
    /\ [][ \A g \in Stepping :
             \/ task'[g].pc = "returned"
             \/ Cardinality(task'[g].todo) < Cardinality(task[g].todo)
             \/ tokens' < tokens ]_vars
    /\ (\E i \in Tasks : task[i].pc # "returned")
           ~> (pc = "exited" \/ \A i \in Tasks : task[i].pc = "returned")
    /\ [](pc = "loop" /\ idx <= Len(resources) => ENABLED Acquire)
    /\ (pc = "getMetrics") ~> FetchReturned

\* the dispatcher has got past the gate for an element beyond
\* MaxConcurrency, and a goroutine has returned
C28_Witness ==
    /\ pc = "go"
    /\ idx > MaxConcurrency
    /\ \E g \in Tasks : task[g].pc = "returned"

(***************************************************************************)
(* The paginated listings of discovery.                                    *)
(***************************************************************************)
\* ec.GetAll() has returned its list to Handle
EcReturned == pc \notin { "main", "ecGetAll" } /\ ~(pc = "exited" /\ resources = <<>> /\ idx = 0)

\* ddb.GetAll() has returned its list to Handle
DdbReturned == pc \notin { "main", "ecGetAll", "ddbGetAll" } /\ ~(pc = "exited" /\ idx = 0)

\* the requests of one API among the listing calls made so far
RequestsOf(api) == SelectSeq(listing, LAMBDA q : q.Api = api)

\* C24: ElastiCache discovery enumerates the clusters of every page: every
\* request of the cluster listing, the first and each continuation, asks for
\* the cache node information, and the list GetAll returns holds, in listing
\* order, one RedisNode summary per redis cluster and one MemcachedNode
\* summary per cache node of each memcached cluster of the account.
C24_EveryPageEnumerated ==
    /\ \A k \in DOMAIN listing :
           listing[k].Api = "DescribeCacheClusters" => listing[k].ShowCacheNodeInfo
    /\ pc \notin { "main", "ecGetAll", "exited" } =>
           elasticacheNodes = ElasticacheGetAll(account.clusters)

\* C25: when a continuation call of the cluster listing fails, GetAll stops
\* and returns the error and no list: the failed call is the last call of
\* the run, Handle returns the error, and no cache node was passed on.
C25_ContinuationFailureReturned ==
    \A k \in DOMAIN listing :
        ( /\ listing[k].Api = "DescribeCacheClusters"
          /\ listing[k].Marker # Nil
          /\ listing[k].failed ) =>
            /\ k = Len(listing)
            /\ pc = "exited"
            /\ handleErr = "discovery"
            /\ elasticacheNodes = <<>>

RECURSIVE SummariesBefore(_, _)
\* the number of summaries the tables before table j take in the list: one
\* per table and one per index
SummariesBefore(tables, j) ==
    IF j = 1 THEN 0
    ELSE SummariesBefore(tables, j - 1) + 1 + Len(tables[j - 1].GlobalSecondaryIndexes)

\* C26: DynamoDB discovery merges all pages of the table listing: the first
\* ListTables request has no start name, each further one has the last name
\* of the page before, and the pages together are the tables of the
\* account.  The list holds, in listing order, for each table its Table
\* summary followed at once by one GSI summary per index, with the table
\* name as id, the index name under gsi_name, and gsi_count the number of the
\* table's indexes.  A failed ListTables, DescribeTable or DescribeTimeToLive
\* call is the last call made: Handle returns its error and there is no list.
C26_TablesMergedInOrder ==
    LET lists == RequestsOf("ListTables")
        tables == account.tables
        \* the position in the list of the Table summary of table j
        at == [ j \in DOMAIN tables |-> SummariesBefore(tables, j) + 1 ]
    IN  /\ \A k \in DOMAIN listing :
               ( listing[k].Api \in { "ListTables", "DescribeTable", "DescribeTimeToLive" }
                 /\ listing[k].failed ) =>
                   /\ k = Len(listing)
                   /\ pc = "exited"
                   /\ handleErr = "discovery"
                   /\ resources = <<>>
        /\ \A k \in DOMAIN lists :
               /\ lists[k].Limit = Limit
               /\ k = 1 => lists[k].ExclusiveStartTableName = NilPtr
               /\ k > 1 => /\ ~lists[k - 1].failed
                           /\ lists[k].ExclusiveStartTableName
                                 = Ptr(tables[(k - 1) * account.pageSize].TableName)
        /\ DdbReturned =>
               /\ Len(lists) = PageCount(Len(tables), account.pageSize)
               /\ Len(resources) = SummariesBefore(tables, Len(tables) + 1)
                                    + Len(elasticacheNodes)
               /\ \A j \in DOMAIN tables :
                      LET gsis == tables[j].GlobalSecondaryIndexes
                      IN  /\ resources[at[j]].ID = tables[j].TableName
                          /\ resources[at[j]].Type = AwsDynamoDbTable
                          /\ resources[at[j]].AdditionalData["gsi_count"]
                                = FormatInt(Len(gsis))
                          /\ \A g \in DOMAIN gsis :
                                 /\ resources[at[j] + g].ID = tables[j].TableName
                                 /\ resources[at[j] + g].Type = AwsDynamoDbGsi
                                 /\ resources[at[j] + g].AdditionalData["gsi_name"]
                                       = gsis[g].IndexName
               /\ \A j \in DOMAIN tables :
                      \E a, b \in DOMAIN listing :
                          /\ a < b
                          /\ listing[a] = DescribeRequest("DescribeTable", tables[j].TableName, FALSE)
                          /\ listing[b] = DescribeRequest("DescribeTimeToLive", tables[j].TableName, FALSE)

\* two tables, the first with an index, were listed on two pages and
\* described
C26_Witness ==
    /\ DdbReturned
    /\ Len(account.tables) = 2
    /\ Len(RequestsOf("ListTables")) = 2
    /\ Len(resources) = 3
    /\ resources[2].Type = AwsDynamoDbGsi
    /\ resources[3].Type = AwsDynamoDbTable

====
